---- MODULE Spec2Model ----
(***************************************************************************)
(* Model of the spaced-repetition scheduler of CognifAI                    *)
(* (SpacedRepetitionService) and of the progress store it writes through   *)
(* progressService (Firestore).                                            *)
(*                                                                         *)
(* Numbers of the program are JavaScript doubles.  Intervals and averages  *)
(* are modelled as exact rationals <<n, d>> (d > 0, lowest terms); for the *)
(* magnitudes reached here the double arithmetic of the program is exact   *)
(* or rounds to the same integer.                                          *)
(***************************************************************************)
EXTENDS Integers, Sequences, FiniteSets, TLC

(***************************************************************************)
(* Bounds of the model                                                     *)
(***************************************************************************)
MaxStreak == 4
MaxCount == 3

(***************************************************************************)
(* Rational arithmetic                                                     *)
(***************************************************************************)
Abs(x) == IF x < 0 THEN -x ELSE x

RECURSIVE GCD(_, _)
GCD(a, b) == IF b = 0 THEN a ELSE GCD(b, a % b)

Rat(n, d) ==
  LET g == GCD(Abs(n), d) IN <<n \div g, d \div g>>

Int2Rat(n) == <<n, 1>>

RLe(a, b) == a[1] * b[2] <= b[1] * a[2]
RMax(a, b) == IF RLe(a, b) THEN b ELSE a
RMin(a, b) == IF RLe(a, b) THEN a ELSE b
RAdd(a, b) == Rat(a[1] * b[2] + b[1] * a[2], a[2] * b[2])
RMul(a, b) == Rat(a[1] * b[1], a[2] * b[2])
RDivInt(a, k) == Rat(a[1], a[2] * k)

\* Math.round: the nearest integer, ties towards +Infinity
MathRound(a) == (2 * a[1] + a[2]) \div (2 * a[2])

\* Integer part kept by Date.prototype.setHours (ToIntegerOrInfinity)
Trunc(a) == IF a[1] >= 0 THEN a[1] \div a[2] ELSE -((-a[1]) \div a[2])

(***************************************************************************)
(* DEFAULT_CONFIG                                                          *)
(***************************************************************************)
initialInterval == 5
maxInterval == 168
minInterval == 1
easyBonus == <<5, 2>>
hardPenalty == 2

Performances == {"again", "hard", "good", "easy"}

(***************************************************************************)
(* SpacedRepetitionService.calculateNextInterval                           *)
(***************************************************************************)
\* Variant: the upper bound is not enforced
ClampInterval_NoUpper(x) == RMax(x, Int2Rat(minInterval))

ClampInterval(x) ==
  RMin(RMax(x, Int2Rat(minInterval)), Int2Rat(maxInterval))

\* Variant: 'good' doubles the interval for every streak above 0
calculateNextInterval_GoodDoubles(currentInterval, performance, consecutiveCorrect) ==
  LET newInterval ==
        CASE performance = "again" -> Int2Rat(minInterval)
          [] performance = "hard" ->
               RMax(RDivInt(currentInterval, hardPenalty), Int2Rat(minInterval))
          [] performance = "good" ->
               IF consecutiveCorrect = 0 THEN Int2Rat(initialInterval)
               ELSE RMul(currentInterval, Int2Rat(2))
          [] performance = "easy" ->
               IF consecutiveCorrect = 0 THEN Int2Rat(initialInterval * 2)
               ELSE RMul(currentInterval, easyBonus)
          [] OTHER -> currentInterval
  IN ClampInterval(newInterval)

\* Variant: after 'again' the question is due at once
calculateNextInterval_AgainAtOnce(currentInterval, performance, consecutiveCorrect) ==
  LET newInterval ==
        CASE performance = "again" -> Int2Rat(minInterval - 1)
          [] performance = "hard" ->
               RMax(RDivInt(currentInterval, hardPenalty), Int2Rat(minInterval))
          [] performance = "good" ->
               IF consecutiveCorrect = 0 THEN Int2Rat(initialInterval)
               ELSE IF consecutiveCorrect = 1 THEN Int2Rat(initialInterval * 2)
               ELSE RMul(currentInterval, Int2Rat(2))
          [] performance = "easy" ->
               IF consecutiveCorrect = 0 THEN Int2Rat(initialInterval * 2)
               ELSE RMul(currentInterval, easyBonus)
          [] OTHER -> currentInterval
  IN IF performance = "again" THEN newInterval ELSE ClampInterval(newInterval)

calculateNextInterval(currentInterval, performance, consecutiveCorrect) ==
  LET newInterval ==
        CASE performance = "again" -> Int2Rat(minInterval)
          [] performance = "hard" ->
               RMax(RDivInt(currentInterval, hardPenalty), Int2Rat(minInterval))
          [] performance = "good" ->
               IF consecutiveCorrect = 0 THEN Int2Rat(initialInterval)
               ELSE IF consecutiveCorrect = 1 THEN Int2Rat(initialInterval * 2)
               ELSE RMul(currentInterval, Int2Rat(2))
          [] performance = "easy" ->
               IF consecutiveCorrect = 0 THEN Int2Rat(initialInterval * 2)
               ELSE RMul(currentInterval, easyBonus)
          [] OTHER -> currentInterval
  IN ClampInterval(newInterval)

(***************************************************************************)
(* SpacedRepetitionService.calculateMasteryLevel                           *)
(***************************************************************************)
\* Variant: the consistency bonus is not capped at 30
calculateMasteryLevel_UncappedStreak(correctAnswers, totalAttempts, consecutiveCorrect, currentInterval) ==
  IF totalAttempts = 0 THEN 0
  ELSE
    LET accuracy == Rat(correctAnswers, totalAttempts)
        consistencyBonus == Int2Rat(consecutiveCorrect * 10)
        intervalBonus ==
          RMin(RMul(RDivInt(currentInterval, maxInterval), Int2Rat(20)), Int2Rat(20))
        masteryLevel ==
          RAdd(RAdd(RMul(accuracy, Int2Rat(50)), consistencyBonus), intervalBonus)
        rounded == MathRound(masteryLevel)
    IN IF rounded < 100 THEN rounded ELSE 100

calculateMasteryLevel(correctAnswers, totalAttempts, consecutiveCorrect, currentInterval) ==
  IF totalAttempts = 0 THEN 0
  ELSE
    LET accuracy == Rat(correctAnswers, totalAttempts)
        consistencyBonus == RMin(Int2Rat(consecutiveCorrect * 10), Int2Rat(30))
        intervalBonus ==
          RMin(RMul(RDivInt(currentInterval, maxInterval), Int2Rat(20)), Int2Rat(20))
        masteryLevel ==
          RAdd(RAdd(RMul(accuracy, Int2Rat(50)), consistencyBonus), intervalBonus)
        rounded == MathRound(masteryLevel)
    IN IF rounded < 100 THEN rounded ELSE 100

(***************************************************************************)
(* SpacedRepetitionService.isQuestionMastered                              *)
(***************************************************************************)
isQuestionMastered(masteryLevel, correctAnswers, reviewInterval) ==
  /\ masteryLevel >= 80
  /\ correctAnswers >= 3
  /\ RLe(Int2Rat(24), reviewInterval)

(***************************************************************************)
(* Optional values: <<>> is undefined / null, <<v>> is the value v         *)
(***************************************************************************)
Undefined == <<>>
Some(v) == <<v>>

\* x || dflt on an optional number: undefined and 0 are both falsy
NumOr(o, dflt) == IF o = <<>> \/ o = <<0>> THEN dflt ELSE o[1]

(***************************************************************************)
(* Identifiers and the key of a progress document                          *)
(***************************************************************************)
Users == {<<"u">>, <<"v">>}
Questions == {<<"p">>, <<"q">>}
Topics == {<<"t">>}

\* The user of the running session (the screens' userId)
Callers == {<<"u">>}

\* `${userId}_${questionId}`
ProgressId(userId, questionId) == userId \o <<"_">> \o questionId

ProgressIds == {ProgressId(u, q) : u \in Users, q \in Questions}

(***************************************************************************)
(* Clock: Date values in ticks; local time without daylight saving         *)
(***************************************************************************)
TicksPerHour == 2
MaxTime == 1

getHours(t) == (t \div TicksPerHour) % 24

\* Date.prototype.setHours(h): the hour field is replaced by the integer
\* part of h, minutes and below are kept, overflow carries into the date
setHours(t, h) == t + (Trunc(h) - getHours(t)) * TicksPerHour

\* d = new Date(); d.setHours(d.getHours() + hours)
HoursFrom(t, hours) == setHours(t, RAdd(Int2Rat(getHours(t)), hours))

(***************************************************************************)
(* State                                                                   *)
(***************************************************************************)
MaxOps == 2
CallIds == {1, 2}

VARIABLES
  store,      \* the progress collection: document id -> document data
  now,        \* the clock
  calls,      \* the service calls in flight or finished, one per call slot
  started,    \* number of service calls started so far
  calc,       \* inputs and outputs of the pure calculators under evaluation
  review,     \* a getQuestionsForReview call: arguments, fetched pool, result
  session,    \* the state of ReviewSessionScreen and its running handlers
  stats,      \* inputs and output of generateSessionStats under evaluation
  gemini,     \* a generateQuestions call of GeminiService
  catalog,    \* the topics and questions collections and the calls on them
  rules,      \* a request under evaluation by the access rules
  reminders,  \* a scheduleReviewReminders call and the scheduled notifications
  auth,       \* AuthService, the auth provider and the running callbacks
  journal     \* the answers a single caller has given, one after the other

auxVars == <<rules, reminders, auth, journal>>

\* The parts of the state outside the answer processor and its store
extVars == <<review, session, stats, gemini, catalog, auxVars>>

vars == <<store, now, calls, started, calc, extVars>>

(***************************************************************************)
(* Progress documents (types/index.ts Progress)                            *)
(***************************************************************************)
Progress(u, q, t, correct, total, streak, answeredAt, reviewAt, interval, mastery, completed, lastPerf, avgTime) ==
  [userId |-> u, questionId |-> q, topicId |-> t,
   correctAnswers |-> correct, totalAttempts |-> total,
   consecutiveCorrect |-> streak,
   lastAnsweredAt |-> answeredAt, nextReviewAt |-> reviewAt,
   reviewInterval |-> interval, masteryLevel |-> mastery,
   isCompleted |-> completed, lastPerformance |-> lastPerf,
   averageResponseTime |-> avgTime]

\* Documents the collection may hold before the first call
SeedKinds == {"streak2", "simple", "mastered", "lapsed"}

Seed(kind, u, q) ==
  CASE kind = "streak2" ->
         Progress(u, q, <<"t">>, 2, 2, Some(2), 0, 0, Int2Rat(5),
                  calculateMasteryLevel(2, 2, 2, Int2Rat(5)), FALSE, "good",
                  Some(Int2Rat(10)))
    [] kind = "simple" ->
         Progress(u, q, <<"t">>, 1, 1, Undefined, 0, 0, Int2Rat(5),
                  100, FALSE, "undefined", Undefined)
    [] kind = "mastered" ->
         Progress(u, q, <<"t">>, 3, 3, Some(3), 0, 0, Int2Rat(100),
                  calculateMasteryLevel(3, 3, 3, Int2Rat(100)), TRUE, "good",
                  Some(Int2Rat(10)))
    [] kind = "lapsed" ->
         Progress(u, q, <<"t">>, 1, 2, Some(0), 0, 0, Int2Rat(1),
                  calculateMasteryLevel(1, 2, 0, Int2Rat(1)), FALSE, "again",
                  Undefined)

Exists(id) == id \in DOMAIN store

(***************************************************************************)
(* Service calls                                                           *)
(***************************************************************************)
IdleCall ==
  [op |-> "none", pc |-> "idle", userId |-> <<>>, questionId |-> <<>>,
   topicId |-> <<>>, performance |-> "none", responseTime |-> Undefined,
   isCorrect |-> FALSE, currentProgress |-> Undefined, update |-> Undefined,
   at |-> 0, result |-> "none"]

CallKey(c) == ProgressId(calls[c].userId, calls[c].questionId)

NoCalc ==
  [i |-> Int2Rat(0), k |-> 0, c |-> 0, t |-> 0,
   next |-> [p \in Performances |-> Undefined], mastery |-> Undefined]

ResponseTimes == {Undefined, Some(Int2Rat(20))}

\* The other components at rest
NoReview ==
  [pc |-> "idle", userId |-> <<>>, sessionType |-> "none", limit |-> 0,
   queriedAt |-> 0, due |-> <<>>, at |-> 0, result |-> <<>>]

NoSession ==
  [questions |-> <<>>, currentIndex |-> 0, showAnswer |-> FALSE,
   sessionStats |-> [questionsReviewed |-> 0, correctAnswers |-> 0,
                     totalTime |-> 0],
   handlers |-> <<>>, finished |-> <<>>, alerts |-> 0, presses |-> 0]

NoStats ==
  [questionsReviewed |-> 0, correctAnswers |-> 0, sessionDuration |-> 0,
   averageResponseTime |-> Int2Rat(0), out |-> Undefined]

NoGemini ==
  [pc |-> "idle", apiKey |-> FALSE, difficulty |-> "none",
   invocations |-> 0, requests |-> 0,
   response |-> Undefined, result |-> Undefined, error |-> "none"]

NoCatalog ==
  [questions |-> {}, topics |-> <<>>, ops |-> <<>>, nextId |-> 1,
   started |-> 0]

NoRequest ==
  [pc |-> "idle", auth |-> Undefined, method |-> "none",
   collection |-> "none", docId |-> <<>>, resource |-> Undefined,
   allowed |-> FALSE]

NoReminders ==
  [pc |-> "idle", userId |-> <<>>, buckets |-> <<>>, considered |-> 0,
   scheduled |-> {}]

NoAuth ==
  [provider |-> Undefined, currentUser |-> Undefined, callbacks |-> <<>>,
   profiles |-> {}, listeners |-> <<>>, registered |-> 0, events |-> 0]

NoJournal == [initial |-> "none", answers |-> <<>>, written |-> {}]

AuxIdle ==
  /\ rules = NoRequest
  /\ reminders = NoReminders
  /\ auth = NoAuth
  /\ journal = NoJournal

ExtIdle ==
  /\ AuxIdle
  /\ review = NoReview
  /\ session = NoSession
  /\ stats = NoStats
  /\ gemini = NoGemini
  /\ catalog = NoCatalog

(***************************************************************************)
(* Initial states of the service and its store                             *)
(***************************************************************************)
\* The stores the model starts from: empty, and two populated ones
InitStores ==
  { <<>>,
    (<<"u", "_", "p">> :> "streak2") @@ (<<"u", "_", "q">> :> "mastered") @@
    (<<"v", "_", "p">> :> "lapsed") @@ (<<"v", "_", "q">> :> "simple"),
    (<<"u", "_", "p">> :> "simple") @@ (<<"u", "_", "q">> :> "lapsed") @@
    (<<"v", "_", "p">> :> "mastered") }

Init ==
  /\ \E kinds \in InitStores :
       store = [id \in DOMAIN kinds |->
                  LET uq == CHOOSE uq \in Users \X Questions :
                              ProgressId(uq[1], uq[2]) = id
                  IN Seed(kinds[id], uq[1], uq[2])]
  /\ now = 0
  /\ calls = [c \in CallIds |-> IdleCall]
  /\ started = 0
  /\ calc = NoCalc
  /\ ExtIdle

(***************************************************************************)
(* SpacedRepetitionService.calculateAverageResponseTime                    *)
(***************************************************************************)
Truthy(o) == o # <<>> /\ o[1] # Int2Rat(0)

calculateAverageResponseTime(currentAverage, newTime, totalAttempts) ==
  IF ~Truthy(currentAverage) \/ totalAttempts = 1
  THEN newTime
  ELSE RAdd(RMul(currentAverage[1], <<7, 10>>), RMul(newTime, <<3, 10>>))

(***************************************************************************)
(* SpacedRepetitionService.processAnswer: the record handed to             *)
(* progressService.updateProgress, computed from the record read           *)
(***************************************************************************)
\* Variant: the streak is not reset by 'again'
NewStreak_NeverResets(currentProgress, performance) ==
  (IF currentProgress = Undefined THEN 0
   ELSE NumOr(currentProgress[1].consecutiveCorrect, 0))
  + (IF performance # "again" THEN 1 ELSE 0)

NewStreak(currentProgress, performance) ==
  IF performance # "again"
  THEN (IF currentProgress = Undefined THEN 0
        ELSE NumOr(currentProgress[1].consecutiveCorrect, 0)) + 1
  ELSE 0

\* Variant: the interval is computed from the streak before this answer
ProcessAnswerUpdate_StaleStreak(u, q, t, performance, responseTime, currentProgress, time) ==
  LET isCorrect == performance # "again"
      priorCorrect == IF currentProgress = Undefined THEN 0
                      ELSE currentProgress[1].correctAnswers
      priorTotal == IF currentProgress = Undefined THEN 0
                    ELSE currentProgress[1].totalAttempts
      priorAverage == IF currentProgress = Undefined THEN Undefined
                      ELSE currentProgress[1].averageResponseTime
      newCorrectAnswers == IF isCorrect THEN priorCorrect + 1 ELSE priorCorrect
      newTotalAttempts == priorTotal + 1
      consecutiveCorrect == NewStreak(currentProgress, performance)
      currentInterval ==
        IF currentProgress = Undefined
           \/ currentProgress[1].reviewInterval = Int2Rat(0)
        THEN Int2Rat(initialInterval)
        ELSE currentProgress[1].reviewInterval
      nextInterval ==
        calculateNextInterval(currentInterval, performance,
                              IF currentProgress = Undefined THEN 0
                              ELSE NumOr(currentProgress[1].consecutiveCorrect, 0))
      nextReviewAt == HoursFrom(time, nextInterval)
      masteryLevel ==
        calculateMasteryLevel(newCorrectAnswers, newTotalAttempts,
                              consecutiveCorrect, nextInterval)
  IN Progress(u, q, t, newCorrectAnswers, newTotalAttempts,
              Some(consecutiveCorrect), time, nextReviewAt, nextInterval,
              masteryLevel,
              isQuestionMastered(masteryLevel, newCorrectAnswers, nextInterval),
              performance,
              IF Truthy(responseTime)
              THEN Some(calculateAverageResponseTime(priorAverage,
                                                     responseTime[1],
                                                     newTotalAttempts))
              ELSE priorAverage)

ProcessAnswerUpdate(u, q, t, performance, responseTime, currentProgress, time) ==
  LET isCorrect == performance # "again"
      priorCorrect == IF currentProgress = Undefined THEN 0
                      ELSE currentProgress[1].correctAnswers
      priorTotal == IF currentProgress = Undefined THEN 0
                    ELSE currentProgress[1].totalAttempts
      priorAverage == IF currentProgress = Undefined THEN Undefined
                      ELSE currentProgress[1].averageResponseTime
      newCorrectAnswers == IF isCorrect THEN priorCorrect + 1 ELSE priorCorrect
      newTotalAttempts == priorTotal + 1
      consecutiveCorrect == NewStreak(currentProgress, performance)
      currentInterval ==
        IF currentProgress = Undefined
           \/ currentProgress[1].reviewInterval = Int2Rat(0)
        THEN Int2Rat(initialInterval)
        ELSE currentProgress[1].reviewInterval
      nextInterval ==
        calculateNextInterval(currentInterval, performance, consecutiveCorrect)
      nextReviewAt == HoursFrom(time, nextInterval)
      masteryLevel ==
        calculateMasteryLevel(newCorrectAnswers, newTotalAttempts,
                              consecutiveCorrect, nextInterval)
  IN Progress(u, q, t, newCorrectAnswers, newTotalAttempts,
              Some(consecutiveCorrect), time, nextReviewAt, nextInterval,
              masteryLevel,
              isQuestionMastered(masteryLevel, newCorrectAnswers, nextInterval),
              performance,
              IF Truthy(responseTime)
              THEN Some(calculateAverageResponseTime(priorAverage,
                                                     responseTime[1],
                                                     newTotalAttempts))
              ELSE priorAverage)

(***************************************************************************)
(* progressService.createOrUpdateProgress: the fields it hands to          *)
(* updateDoc (the fields it leaves out keep the values of currentProgress) *)
(***************************************************************************)
CreateOrUpdateData(u, q, t, isCorrect, currentProgress, time) ==
  IF currentProgress # Undefined
  THEN
    LET cur == currentProgress[1]
        newCorrectAnswers == IF isCorrect THEN cur.correctAnswers + 1
                             ELSE cur.correctAnswers
        newTotalAttempts == cur.totalAttempts + 1
        accuracy == Rat(newCorrectAnswers, newTotalAttempts)
        newInterval ==
          IF isCorrect
          THEN RMin(RMul(cur.reviewInterval, Int2Rat(2)), Int2Rat(168))
          ELSE RMax(RDivInt(cur.reviewInterval, 2), Int2Rat(1))
    IN [cur EXCEPT
          !.correctAnswers = newCorrectAnswers,
          !.totalAttempts = newTotalAttempts,
          !.lastAnsweredAt = time,
          !.nextReviewAt = HoursFrom(time, newInterval),
          !.reviewInterval = newInterval,
          !.masteryLevel = MathRound(RMul(accuracy, Int2Rat(100))),
          !.isCompleted = RLe(<<4, 5>>, accuracy) /\ newTotalAttempts >= 3]
  ELSE
    Progress(u, q, t, IF isCorrect THEN 1 ELSE 0, 1, Undefined, time,
             HoursFrom(time, Int2Rat(5)), Int2Rat(5),
             IF isCorrect THEN 100 ELSE 0, FALSE, "undefined", Undefined)

(***************************************************************************)
(* Firestore updateDoc: fields of the update replace those of the stored   *)
(* document, the other fields are kept                                     *)
(***************************************************************************)
MergeUpdate(op, old, upd) ==
  IF op = "createOrUpdateProgress"
  THEN [upd EXCEPT
          !.userId = old.userId, !.questionId = old.questionId,
          !.topicId = old.topicId,
          !.consecutiveCorrect = old.consecutiveCorrect,
          !.lastPerformance = old.lastPerformance,
          !.averageResponseTime = old.averageResponseTime]
  ELSE upd

\* updateDoc rejects data holding an undefined field value
ValidUpdateData(op, upd) ==
  op = "processAnswer" => upd.averageResponseTime # Undefined

(***************************************************************************)
(* Actions.  A call is two steps: its read of the store together with the  *)
(* synchronous code that follows the read (up to the updateDoc request),   *)
(* and the store's answer to that request.  Other calls and the clock may  *)
(* take steps between the two.                                             *)
(***************************************************************************)
Free(c) ==
  /\ calls[c].pc \in {"idle", "done"}
  /\ \A d \in CallIds : d < c => calls[d].pc = "updateDoc"

\* The call has returned or thrown: its locals are gone, the key it worked on
\* and its outcome are kept for the caller
Returned(call, result) ==
  [IdleCall EXCEPT !.op = call.op, !.userId = call.userId,
                   !.questionId = call.questionId, !.pc = "done",
                   !.result = result]

Snapshot(id) == IF Exists(id) THEN Some(store[id]) ELSE Undefined

\* The call has handed upd to updateDoc, which throws at once on invalid data
Requested(call, snapshot, upd) ==
  IF ValidUpdateData(call.op, upd)
  THEN [call EXCEPT !.currentProgress = snapshot, !.update = Some(upd),
                    !.at = now, !.pc = "updateDoc", !.result = "pending"]
  ELSE Returned(call, "invalid_data")

\* processAnswer up to its updateProgress request: getProgress answers and
\* the update is computed from the record read
ProcessAnswer(c, u, q, t, performance, responseTime) ==
  /\ Free(c)
  /\ started < MaxOps
  /\ LET snapshot == Snapshot(ProgressId(u, q))
         call == [IdleCall EXCEPT
                    !.op = "processAnswer", !.userId = u, !.questionId = q,
                    !.topicId = t, !.performance = performance,
                    !.responseTime = responseTime,
                    !.isCorrect = performance # "again"]
     IN calls' = [calls EXCEPT ![c] =
          Requested(call, snapshot,
                    ProcessAnswerUpdate(u, q, t, performance, responseTime,
                                        snapshot, now))]
  /\ started' = started + 1
  /\ UNCHANGED <<store, now, calc, extVars>>

\* createOrUpdateProgress up to its updateDoc request
CreateOrUpdateProgress(c, u, q, t, isCorrect) ==
  /\ Free(c)
  /\ started < MaxOps
  /\ LET snapshot == Snapshot(ProgressId(u, q))
         call == [IdleCall EXCEPT
                    !.op = "createOrUpdateProgress", !.userId = u,
                    !.questionId = q, !.topicId = t, !.isCorrect = isCorrect]
     IN calls' = [calls EXCEPT ![c] =
          Requested(call, snapshot,
                    CreateOrUpdateData(u, q, t, isCorrect, snapshot, now))]
  /\ started' = started + 1
  /\ UNCHANGED <<store, now, calc, extVars>>

\* The read of a call fails (store unreachable): the call rejects with that
\* error and requests nothing
GetProgressFails(c, op, u, q, t) ==
  /\ Free(c)
  /\ started < MaxOps
  /\ calls' = [calls EXCEPT ![c] =
       Returned([IdleCall EXCEPT !.op = op, !.userId = u, !.questionId = q,
                                 !.topicId = t], "store_error")]
  /\ started' = started + 1
  /\ UNCHANGED <<store, now, calc, extVars>>

\* Variant: the store compares the stored record with the one the call read
UpdateDoc_ConflictChecked(c) ==
  /\ calls[c].pc = "updateDoc"
  /\ IF Exists(CallKey(c)) /\ Snapshot(CallKey(c)) = calls[c].currentProgress
     THEN /\ store' = [store EXCEPT ![CallKey(c)] =
                         MergeUpdate(calls[c].op, @, calls[c].update[1])]
          /\ calls' = [calls EXCEPT ![c] = Returned(@, "ok")]
     ELSE /\ store' = store
          /\ calls' = [calls EXCEPT ![c] =
               Returned(@, IF Exists(CallKey(c)) THEN "conflict"
                                                 ELSE "not_found")]
  /\ UNCHANGED <<now, started, calc, extVars>>

\* The store applies the update: updateDoc fails on a missing document
UpdateDoc(c) ==
  /\ calls[c].pc = "updateDoc"
  /\ IF Exists(CallKey(c))
     THEN /\ store' = [store EXCEPT ![CallKey(c)] =
                         MergeUpdate(calls[c].op, @, calls[c].update[1])]
          /\ calls' = [calls EXCEPT ![c] = Returned(@, "ok")]
     ELSE /\ store' = store
          /\ calls' = [calls EXCEPT ![c] = Returned(@, "not_found")]
  /\ UNCHANGED <<now, started, calc, extVars>>

\* Variant: the failed write has stored the attempt counter on its own
UpdateDocFails_PartialWrite(c) ==
  /\ calls[c].pc = "updateDoc"
  /\ store' = IF Exists(CallKey(c))
              THEN [store EXCEPT ![CallKey(c)].totalAttempts =
                      calls[c].update[1].totalAttempts]
              ELSE store
  /\ calls' = [calls EXCEPT ![c] = Returned(@, "store_error")]
  /\ UNCHANGED <<now, started, calc, extVars>>

\* The write fails (store unreachable): the call rejects with that error
UpdateDocFails(c) ==
  /\ calls[c].pc = "updateDoc"
  /\ calls' = [calls EXCEPT ![c] = Returned(@, "store_error")]
  /\ UNCHANGED <<store, now, started, calc, extVars>>

\* Time passes
Tick ==
  /\ now < MaxTime
  /\ now' = now + 1
  /\ UNCHANGED <<store, calls, started, calc, extVars>>

Next ==
  \/ \E c \in CallIds, u \in Callers, q \in Questions, t \in Topics,
        p \in Performances, rt \in ResponseTimes :
       ProcessAnswer(c, u, q, t, p, rt)
  \/ \E c \in CallIds, u \in Callers, q \in Questions, t \in Topics,
        ok \in BOOLEAN :
       CreateOrUpdateProgress(c, u, q, t, ok)
  \/ \E c \in CallIds, op \in {"processAnswer", "createOrUpdateProgress"},
        u \in Callers, q \in Questions, t \in Topics :
       GetProgressFails(c, op, u, q, t)
  \/ \E c \in CallIds : UpdateDoc(c)
  \/ \E c \in CallIds : UpdateDocFails(c)
  \/ Tick

Spec == Init /\ [][Next]_vars

(***************************************************************************)
(* The pure calculators on their own: inputs drawn from bounded sets, one  *)
(* action per evaluation                                                   *)
(***************************************************************************)
CalcIntervals ==
  {<<0, 1>>, <<1, 2>>, <<1, 1>>, <<5, 4>>, <<2, 1>>, <<5, 2>>,
   <<3, 1>>, <<4, 1>>, <<5, 1>>, <<10, 1>>, <<25, 2>>, <<24, 1>>, <<40, 1>>,
   <<67, 1>>, <<84, 1>>, <<168, 1>>, <<500, 1>>, <<100000, 1>>}

InitCalc ==
  /\ store = <<>>
  /\ now = 0
  /\ calls = [c \in CallIds |-> IdleCall]
  /\ started = 0
  /\ \E i \in CalcIntervals, k \in 0..MaxStreak, t \in 0..MaxCount :
       \E c \in 0..t :
         calc = [NoCalc EXCEPT !.i = i, !.k = k, !.c = c, !.t = t]
  /\ ExtIdle

EvalNextInterval(p) ==
  /\ calc.next[p] = Undefined
  /\ calc' = [calc EXCEPT
                !.next[p] = Some(calculateNextInterval(calc.i, p, calc.k))]
  /\ UNCHANGED <<store, now, calls, started, extVars>>

EvalMasteryLevel ==
  /\ calc.mastery = Undefined
  /\ calc' = [calc EXCEPT
                !.mastery = Some(calculateMasteryLevel(calc.c, calc.t,
                                                       calc.k, calc.i))]
  /\ UNCHANGED <<store, now, calls, started, extVars>>

NextCalc ==
  \/ \E p \in Performances : EvalNextInterval(p)
  \/ EvalMasteryLevel

SpecCalc == InitCalc /\ [][NextCalc]_vars

(***************************************************************************)
(* Properties of the calculators (checked under SpecCalc)                  *)
(***************************************************************************)

\* C1: for every currentInterval (0 and 100000 included), every performance
\* and every consecutiveCorrect >= 0, calculateNextInterval returns a value
\* within [minInterval, maxInterval] = [1, 168].
C1_NextIntervalInRange ==
  \A p \in Performances :
    calc.next[p] # Undefined =>
      /\ calc.next[p][1][2] > 0
      /\ calc.next[p][1][1] >= 1 * calc.next[p][1][2]
      /\ calc.next[p][1][1] <= 168 * calc.next[p][1][2]

C1_Witness ==
  /\ calc.i = <<100000, 1>>
  /\ calc.next["easy"] = Some(<<168, 1>>)
  /\ calc.next["hard"] = Some(<<168, 1>>)
  /\ calc.k = 2

\* C2: calculateNextInterval equals the reference function: 'again' gives 1;
\* 'hard' gives max(i / 2, 1); 'good' gives 5 for streak 0, 10 for streak 1
\* and 2 i otherwise; 'easy' gives 10 for streak 0 and 2.5 i otherwise; each
\* clamped to [1, 168].  x = n/d is compared with the reference by cross
\* multiplication.
C2_NextIntervalIsReference ==
  \A p \in Performances :
    calc.next[p] # Undefined =>
      LET n == calc.next[p][1][1]
          d == calc.next[p][1][2]
          a == calc.i[1]
          b == calc.i[2]
          \* the unclamped reference value as a fraction rn / rd
          rn == CASE p = "again" -> 1
                  [] p = "hard" -> IF a >= 2 * b THEN a ELSE 1
                  [] p = "good" -> IF calc.k = 0 THEN 5
                                   ELSE IF calc.k = 1 THEN 10 ELSE 2 * a
                  [] p = "easy" -> IF calc.k = 0 THEN 10 ELSE 5 * a
          rd == CASE p = "again" -> 1
                  [] p = "hard" -> IF a >= 2 * b THEN 2 * b ELSE 1
                  [] p = "good" -> IF calc.k <= 1 THEN 1 ELSE b
                  [] p = "easy" -> IF calc.k = 0 THEN 1 ELSE 2 * b
      IN IF rn < rd THEN n = d
         ELSE IF rn > 168 * rd THEN n = 168 * d
         ELSE n * rd = rn * d

C2_Witness ==
  /\ calc.i = <<5, 4>>
  /\ calc.k = 1
  /\ calc.next["good"] = Some(<<10, 1>>)
  /\ calc.next["easy"] = Some(<<25, 8>>)
  /\ calc.next["hard"] = Some(<<1, 1>>)
  /\ calc.next["again"] = Some(<<1, 1>>)

\* C3: for every currentInterval i and every streak k > 0,
\* calculateNextInterval(i, 'easy', k) >= calculateNextInterval(i, 'good', k).
C3_EasyNotBelowGood ==
  (calc.k > 0 /\ calc.next["easy"] # Undefined /\ calc.next["good"] # Undefined)
    => RLe(calc.next["good"][1], calc.next["easy"][1])

\* C4: calculateMasteryLevel is 0 when totalAttempts = 0 and otherwise
\* min(round(correct/total*50 + min(streak*10, 30) + min(i/168*20, 20)), 100);
\* masteryLevel(3,3,3,168) = 100, masteryLevel(0,0,0,0) = 0, and for
\* 0 <= correct <= total, streak >= 0, i >= 0 the result is in 0..100.
C4_MasteryLevelFormula ==
  calc.mastery # Undefined =>
    LET m == calc.mastery[1]
        \* x = xn / xd, the unrounded score, over the common denominator
        xd == calc.t * 168 * calc.i[2]
        streakBonus == IF calc.k * 10 < 30 THEN calc.k * 10 ELSE 30
        intervalNum == IF calc.i[1] < 168 * calc.i[2]
                       THEN 20 * calc.i[1] * calc.t
                       ELSE 20 * 168 * calc.i[2] * calc.t
        xn == 50 * calc.c * 168 * calc.i[2] + streakBonus * xd + intervalNum
    IN /\ calc.t = 0 => m = 0
       /\ calc.t > 0 =>
            \E r \in -10..110 :
              /\ (2 * r - 1) * xd <= 2 * xn
              /\ 2 * xn < (2 * r + 1) * xd
              /\ m = IF r < 100 THEN r ELSE 100
       /\ (calc.c = 3 /\ calc.t = 3 /\ calc.k = 3 /\ calc.i = <<168, 1>>)
            => m = 100
       /\ (calc.c = 0 /\ calc.t = 0 /\ calc.k = 0 /\ calc.i = <<0, 1>>)
            => m = 0
       /\ calc.i[1] >= 0 => m \in 0..100

C4_Witness ==
  /\ calc.c = 3 /\ calc.t = 3 /\ calc.k = 3 /\ calc.i = <<168, 1>>
  /\ calc.mastery = Some(100)

(***************************************************************************)
(* Properties of the answer processor and the store (checked under Spec)   *)
(***************************************************************************)
Pending(c) == calls[c].pc = "updateDoc" /\ calls[c].op = "processAnswer"

\* C5: after any sequence and interleaving of calls, every stored progress
\* record has reviewInterval within [minInterval, maxInterval] and
\* masteryLevel within [0, 100].
C5_StoredRanges ==
  \A id \in DOMAIN store :
    /\ store[id].reviewInterval[2] > 0
    /\ store[id].reviewInterval[1] >= 1 * store[id].reviewInterval[2]
    /\ store[id].reviewInterval[1] <= 168 * store[id].reviewInterval[2]
    /\ store[id].masteryLevel \in 0..100

C5_Witness ==
  /\ Exists(<<"u", "_", "q">>)
  /\ store[<<"u", "_", "q">>].totalAttempts = 5
  /\ store[<<"u", "_", "q">>].lastPerformance = "easy"
  /\ store[<<"u", "_", "q">>].reviewInterval = <<168, 1>>
  /\ store[<<"u", "_", "q">>].masteryLevel = 100

\* C6: in every reachable store state a record with isCompleted = true has
\* masteryLevel >= 80, correctAnswers >= 3 and reviewInterval >= 24.
C6_CompletedIsMastered ==
  \A id \in DOMAIN store :
    store[id].isCompleted =>
      /\ store[id].masteryLevel >= 80
      /\ store[id].correctAnswers >= 3
      /\ store[id].reviewInterval[1] >= 24 * store[id].reviewInterval[2]

\* C7: a successful processAnswer writes totalAttempts = prior + 1,
\* correctAnswers = prior + 1 unless the performance is 'again' (then prior),
\* consecutiveCorrect = prior + 1 unless 'again' (then 0), and lastPerformance
\* = the given performance; prior is the record the call read.
C7_CountsWritten ==
  [][\A c \in CallIds :
       (Pending(c) /\ calls'[c].result = "ok") =>
         LET prior == calls[c].currentProgress
             priorTotal == IF prior = Undefined THEN 0 ELSE prior[1].totalAttempts
             priorCorrect == IF prior = Undefined THEN 0 ELSE prior[1].correctAnswers
             priorStreak == IF prior = Undefined
                               \/ prior[1].consecutiveCorrect = Undefined
                            THEN 0 ELSE prior[1].consecutiveCorrect[1]
             again == calls[c].performance = "again"
             rec == store'[CallKey(c)]
         IN /\ rec.totalAttempts = priorTotal + 1
            /\ rec.correctAnswers = IF again THEN priorCorrect ELSE priorCorrect + 1
            /\ rec.consecutiveCorrect = IF again THEN <<0>> ELSE <<priorStreak + 1>>
            /\ rec.lastPerformance = calls[c].performance]_vars

C7_Witness ==
  \E c \in CallIds :
    /\ calls[c].op = "processAnswer"
    /\ calls[c].result = "ok"
    /\ store[CallKey(c)].lastPerformance = "again"
    /\ store[CallKey(c)].consecutiveCorrect = <<0>>
    /\ store[CallKey(c)].correctAnswers = 2
    /\ store[CallKey(c)].totalAttempts = 3

C9_NextReviewExact ==
  \A c \in CallIds :
    Pending(c) =>
      LET upd == calls[c].update[1]
      IN upd.nextReviewAt * upd.reviewInterval[2]
           = calls[c].at * upd.reviewInterval[2]
             + upd.reviewInterval[1] * TicksPerHour

\* C10: processAnswer for a key without a stored record, with the store
\* reachable, succeeds and leaves a record under that key with
\* totalAttempts = 1.
C10_FirstAnswerCreates ==
  [][\A c \in CallIds :
       (/\ Pending(c)
        /\ calls[c].currentProgress = Undefined
        /\ calls'[c].pc = "done"
        /\ calls'[c].result # "store_error") =>
         /\ calls'[c].result = "ok"
         /\ CallKey(c) \in DOMAIN store'
         /\ store'[CallKey(c)].totalAttempts = 1]_vars

\* C11: a processAnswer call whose store read or store write fails ends with
\* that error, leaves the stored records as they were and has no store
\* request left; a store request is issued only by a newly started call (no
\* retry); every change of the store is the single write of one pending call,
\* which replaces the fields of that call's key by its whole update at once.
C11_FailedCallLeavesRecord ==
  [][/\ \A c \in CallIds :
          /\ (/\ calls'[c] # calls[c]
              /\ calls'[c].op = "processAnswer"
              /\ calls'[c].result = "store_error") =>
               /\ store' = store
               /\ calls'[c].pc = "done"
               /\ calls'[c].update = Undefined
          /\ (calls'[c].pc = "updateDoc" /\ calls'[c] # calls[c]) =>
               /\ calls[c].pc # "updateDoc"
               /\ started' = started + 1
               /\ store' = store
     /\ store' # store =>
          \E c \in CallIds :
            /\ calls[c].pc = "updateDoc"
            /\ calls'[c].pc = "done"
            /\ calls'[c].result = "ok"
            /\ \A d \in CallIds \ {c} : calls'[d] = calls[d]
            /\ DOMAIN store' = DOMAIN store
            /\ \A id \in DOMAIN store \ {CallKey(c)} : store'[id] = store[id]
            /\ calls[c].op = "processAnswer" =>
                 \A f \in DOMAIN calls[c].update[1] :
                   store'[CallKey(c)][f] = calls[c].update[1][f]]_vars

C11_Witness ==
  \E c \in CallIds :
    /\ calls[c].op = "processAnswer"
    /\ calls[c].pc = "done"
    /\ calls[c].result = "store_error"
    /\ started = 1
    /\ Exists(CallKey(c))
    /\ store[CallKey(c)] = Seed("streak2", calls[c].userId, calls[c].questionId)

\* C12: the store detects no conflict: a pending processAnswer whose key
\* holds a record is answered with success whatever has been written since
\* the call read, and the record then holds the totalAttempts computed from
\* what the call read; so two overlapping calls on one key that read the same
\* record both succeed and leave totalAttempts grown by 1, not 2.
C12_NoConflictDetected ==
  [][\A c \in CallIds :
       (/\ Pending(c)
        /\ Exists(CallKey(c))
        /\ calls'[c].pc = "done"
        /\ calls'[c].result # "store_error") =>
         /\ calls'[c].result = "ok"
         /\ store'[CallKey(c)].totalAttempts =
              IF calls[c].currentProgress = Undefined THEN 1
              ELSE calls[c].currentProgress[1].totalAttempts + 1]_vars

\* Two processAnswer calls on the key u_p, started on the seed with
\* totalAttempts 2, have both succeeded and the record holds totalAttempts 3
C12_Witness ==
  /\ started = 2
  /\ \A c \in CallIds :
       /\ calls[c].op = "processAnswer"
       /\ calls[c].pc = "done"
       /\ calls[c].result = "ok"
       /\ CallKey(c) = ProgressId(<<"u">>, <<"p">>)
  /\ Exists(ProgressId(<<"u">>, <<"p">>))
  /\ store[ProgressId(<<"u">>, <<"p">>)].totalAttempts = 3
  /\ store[ProgressId(<<"u">>, <<"p">>)].topicId
       = Seed("streak2", <<"u">>, <<"p">>).topicId

(***************************************************************************)
(* ReviewSessionScreen.  A press on a rating button starts handleAnswer,   *)
(* which awaits processAnswer; the handler keeps the values of the render  *)
(* it was created in (currentIndex, questions, sessionStats).  The rating  *)
(* buttons are shown whenever showAnswer is true and are not disabled      *)
(* while a handler is running.  The outcome of processAnswer is any of its *)
(* outcomes: it resolves or it rejects.                                    *)
(***************************************************************************)
MaxPresses == 2

\* Seconds between showing a question and the press
ResponseSeconds == {5, 20}

\* What getQuestionsForReview handed to the screen
SessionLists == {<<<<"p">>>>, <<<<"p">>, <<"q">>>>}

coreVars == <<store, now, calls, started, calc>>

CoreIdle ==
  /\ store = <<>>
  /\ now = 0
  /\ calls = [c \in CallIds |-> IdleCall]
  /\ started = 0
  /\ calc = NoCalc

InitSession ==
  /\ AuxIdle
  /\ CoreIdle
  /\ review = NoReview
  /\ stats = NoStats
  /\ gemini = NoGemini
  /\ catalog = NoCatalog
  /\ \E qs \in SessionLists : session = [NoSession EXCEPT !.questions = qs]

RemoveAt(seq, i) == SubSeq(seq, 1, i - 1) \o SubSeq(seq, i + 1, Len(seq))

\* The session-complete alert has not been raised: the screen takes presses
Interactive == session.finished = <<>>

\* The user asks for the answer of the current question
RevealAnswer ==
  /\ Interactive
  /\ session.currentIndex < Len(session.questions)
  /\ ~session.showAnswer
  /\ session' = [session EXCEPT !.showAnswer = TRUE]
  /\ UNCHANGED <<coreVars, review, stats, gemini, catalog, auxVars>>

\* handleAnswer up to its await of processAnswer
HandleAnswer(performance, responseTime) ==
  /\ Interactive
  /\ session.showAnswer
  /\ session.currentIndex < Len(session.questions)
  /\ session.presses < MaxPresses
  /\ session' = [session EXCEPT
       !.presses = @ + 1,
       !.handlers = Append(@,
          [currentIndex |-> session.currentIndex,
           questionId |-> session.questions[session.currentIndex + 1],
           performance |-> performance,
           responseTime |-> responseTime,
           sessionStats |-> session.sessionStats])]
  /\ UNCHANGED <<coreVars, review, stats, gemini, catalog, auxVars>>

\* processAnswer has resolved: the rest of handleAnswer's try block
AnswerSaved(i) ==
  /\ i \in 1..Len(session.handlers)
  /\ LET h == session.handlers[i]
         last == ~(h.currentIndex + 1 < Len(session.questions))
     IN session' = [session EXCEPT
          !.handlers = RemoveAt(@, i),
          !.sessionStats =
             [questionsReviewed |-> @.questionsReviewed + 1,
              correctAnswers |-> @.correctAnswers
                                 + (IF h.performance # "again" THEN 1 ELSE 0),
              totalTime |-> @.totalTime + h.responseTime],
          !.currentIndex = IF last THEN @ ELSE h.currentIndex + 1,
          !.showAnswer = IF last THEN @ ELSE FALSE,
          !.finished = IF last THEN Append(@, h.sessionStats) ELSE @]
  /\ UNCHANGED <<coreVars, review, stats, gemini, catalog, auxVars>>

\* Variant: the catch block also moves on to the next question
AnswerFails_Advances(i) ==
  /\ i \in 1..Len(session.handlers)
  /\ session' = [session EXCEPT
       !.handlers = RemoveAt(@, i),
       !.alerts = @ + 1,
       !.currentIndex = session.handlers[i].currentIndex + 1,
       !.showAnswer = FALSE]
  /\ UNCHANGED <<coreVars, review, stats, gemini, catalog, auxVars>>

\* processAnswer has rejected: handleAnswer's catch block
AnswerFails(i) ==
  /\ i \in 1..Len(session.handlers)
  /\ session' = [session EXCEPT !.handlers = RemoveAt(@, i),
                                !.alerts = @ + 1]
  /\ UNCHANGED <<coreVars, review, stats, gemini, catalog, auxVars>>

NextSession ==
  \/ RevealAnswer
  \/ \E p \in Performances, rt \in ResponseSeconds : HandleAnswer(p, rt)
  \/ \E i \in 1..MaxPresses : AnswerSaved(i)
  \/ \E i \in 1..MaxPresses : AnswerFails(i)

SpecSession == InitSession /\ [][NextSession]_vars

\* C13: in ReviewSessionScreen no two handleAnswer runs for the same question
\* are awaiting processAnswer at the same time.
C13_AnswersSerialized ==
  \A i, j \in 1..Len(session.handlers) :
    session.handlers[i].questionId = session.handlers[j].questionId => i = j

(***************************************************************************)
(* SpacedRepetitionService.getQuestionsForReview over                      *)
(* progressService.getDueQuestions.  The call is two steps: the query,     *)
(* evaluated by the store with the client's time of the call, and, after   *)
(* the await, the session filter, the priority sort and the slice, which   *)
(* read the clock again.                                                   *)
(***************************************************************************)
\* The clock of a review: it starts 4 hours after the earliest timestamp
ReviewStart == 4 * TicksPerHour
MaxReviewTicks == 2

\* limit(20) of the getDueQuestions query
DueLimit == 20

SessionTypes == {"immediate", "spaced", "manual"}
ReviewLimits == {1, 3, 20}

\* Question ids of fixed width, so that document names order as numbers
Digits == <<"0", "1", "2", "3", "4", "5", "6", "7", "8", "9">>
QuestionNo(n) == <<"r", Digits[(n \div 10) + 1], Digits[(n % 10) + 1]>>
MaxQuestionNo == 21

\* All progress document names of a review store, in ascending name order
UserNames(u) ==
  <<ProgressId(u, <<"p">>), ProgressId(u, <<"q">>)>> \o
  [i \in 1..(MaxQuestionNo + 1) |-> ProgressId(u, QuestionNo(i - 1))]

NameOrder == UserNames(<<"u">>) \o UserNames(<<"v">>)

Doc(u, n, answeredAt, reviewAt, mastery, completed) ==
  Progress(u, QuestionNo(n), <<"t">>, 1, 1, Some(1), answeredAt, reviewAt,
           Int2Rat(1), mastery, completed, "good", Some(Int2Rat(10)))

StoreOf(docs) ==
  [id \in {ProgressId(d.userId, d.questionId) : d \in docs} |->
     CHOOSE d \in docs : ProgressId(d.userId, d.questionId) = id]

\* A collection with records of every kind: long overdue, due at the start
\* of the review, answered 2 hours, 1 hour and half an hour before it,
\* completed, not yet due, and another user's
MixedDocs ==
  { Doc(<<"u">>, 0, 0, 2, 70, FALSE), Doc(<<"u">>, 1, 0, 4, 30, FALSE),
    Doc(<<"u">>, 2, 2, 8, 10, FALSE), Doc(<<"u">>, 3, 4, 6, 50, FALSE),
    Doc(<<"u">>, 4, 6, 8, 20, FALSE), Doc(<<"u">>, 5, 7, 7, 60, FALSE),
    Doc(<<"u">>, 6, 0, 2, 90, TRUE),  Doc(<<"u">>, 7, 0, 12, 5, FALSE),
    Doc(<<"u">>, 8, 3, 9, 40, FALSE),
    Doc(<<"v">>, 0, 0, 2, 15, FALSE), Doc(<<"v">>, 1, 7, 8, 25, FALSE) }

\* Twenty records answered half an hour before the review and due since,
\* and one answered long ago that became due after them
RecentDocs ==
  { Doc(<<"u">>, n, 7, 7, 50, FALSE) : n \in 0..19 }
    \cup { Doc(<<"u">>, 20, 0, 8, 30, FALSE) }

\* Twenty records long overdue, a weaker one due after them and one
\* answered half an hour before the review
BacklogDocs ==
  { Doc(<<"u">>, n, 0, 2, 60, FALSE) : n \in 0..19 }
    \cup { Doc(<<"u">>, 20, 0, 3, 10, FALSE), Doc(<<"u">>, 21, 7, 8, 80, FALSE) }

ReviewStores ==
  { <<>>, StoreOf(MixedDocs), StoreOf(RecentDocs), StoreOf(BacklogDocs) }

InitReview ==
  /\ AuxIdle
  /\ store \in ReviewStores
  /\ now = ReviewStart
  /\ calls = [c \in CallIds |-> IdleCall]
  /\ started = 0
  /\ calc = NoCalc
  /\ review = NoReview
  /\ session = NoSession
  /\ stats = NoStats
  /\ gemini = NoGemini
  /\ catalog = NoCatalog

\* Variant: the query has no userId clause
Matches_AnyUser(r, u, t) ==
  /\ r.nextReviewAt <= t
  /\ r.isCompleted = FALSE

\* The where clauses of the getDueQuestions query
Matches(r, u, t) ==
  /\ r.userId = u
  /\ r.nextReviewAt <= t
  /\ r.isCompleted = FALSE

\* orderBy('nextReviewAt', 'asc'): stable insertion into documents that come
\* in name order, so equal timestamps stay in name order
RECURSIVE OrderByNextReviewAt(_)
OrderByNextReviewAt(docs) ==
  IF docs = <<>> THEN <<>>
  ELSE LET rest == OrderByNextReviewAt(SubSeq(docs, 1, Len(docs) - 1))
           x == docs[Len(docs)]
           k == Cardinality({j \in 1..Len(rest) :
                               rest[j].nextReviewAt <= x.nextReviewAt})
       IN SubSeq(rest, 1, k) \o <<x>> \o SubSeq(rest, k + 1, Len(rest))

\* Array.prototype.slice(0, n) for n >= 0
Slice(seq, n) == SubSeq(seq, 1, IF n < Len(seq) THEN n ELSE Len(seq))

\* The documents the query returns at time t
DueQuery(u, t) ==
  LET ids == SelectSeq(NameOrder,
               LAMBDA id : Exists(id) /\ Matches(store[id], u, t))
  IN Slice(OrderByNextReviewAt([i \in 1..Len(ids) |-> store[ids[i]]]),
           DueLimit)

\* The session filter, at time t
PassesFilter(r, sessionType, t) ==
  CASE sessionType = "immediate" -> r.lastAnsweredAt >= HoursFrom(t, Int2Rat(-1))
    [] sessionType = "spaced" -> r.lastAnsweredAt <= HoursFrom(t, Int2Rat(-2))
    [] OTHER -> TRUE

\* Variant: priority by mastery level alone
ComparePriority_MasteryOnly(a, b, t) == a.masteryLevel - b.masteryLevel

\* The sort comparator, at time t
ComparePriority(a, b, t) ==
  LET aOverdue == t - a.nextReviewAt
      bOverdue == t - b.nextReviewAt
  IN IF aOverdue > 0 /\ bOverdue <= 0 THEN -1
     ELSE IF bOverdue > 0 /\ aOverdue <= 0 THEN 1
     ELSE a.masteryLevel - b.masteryLevel

\* Array.prototype.sort with that comparator (a stable sort).  The comparator
\* reads the clock at every comparison; the sort runs without interruption,
\* so the comparisons of one sort are made at one time t
RECURSIVE SortByPriority(_, _)
SortByPriority(recs, t) ==
  IF recs = <<>> THEN <<>>
  ELSE LET rest == SortByPriority(SubSeq(recs, 1, Len(recs) - 1), t)
           x == recs[Len(recs)]
           k == Cardinality({j \in 1..Len(rest) :
                               ComparePriority(rest[j], x, t) <= 0})
       IN SubSeq(rest, 1, k) \o <<x>> \o SubSeq(rest, k + 1, Len(rest))

\* getQuestionsForReview up to its await: the query is sent
GetDueQuestions(u, sessionType, limit) ==
  /\ review.pc = "idle"
  /\ review' = [review EXCEPT !.pc = "fetched", !.userId = u,
                              !.sessionType = sessionType, !.limit = limit,
                              !.queriedAt = now, !.due = DueQuery(u, now)]
  /\ UNCHANGED <<coreVars, session, stats, gemini, catalog, auxVars>>

\* The query fails: getDueQuestions logs and rethrows, and so does the call
GetDueQuestionsFails(u, sessionType, limit) ==
  /\ review.pc = "idle"
  /\ review' = [review EXCEPT !.pc = "failed", !.userId = u,
                              !.sessionType = sessionType, !.limit = limit,
                              !.queriedAt = now]
  /\ UNCHANGED <<coreVars, session, stats, gemini, catalog, auxVars>>

\* The rest of getQuestionsForReview: filter, sort, slice
ReturnReview ==
  /\ review.pc = "fetched"
  /\ review' = [review EXCEPT
       !.pc = "done", !.at = now,
       !.result = Slice(SortByPriority(
                    SelectSeq(review.due,
                      LAMBDA r : PassesFilter(r, review.sessionType, now)),
                    now), review.limit)]
  /\ UNCHANGED <<coreVars, session, stats, gemini, catalog, auxVars>>

ReviewTick ==
  /\ now < ReviewStart + MaxReviewTicks
  /\ now' = now + 1
  /\ UNCHANGED <<store, calls, started, calc, extVars>>

NextReview ==
  \/ \E u \in Users, ty \in SessionTypes, l \in ReviewLimits :
       GetDueQuestions(u, ty, l)
  \/ \E u \in Users, ty \in SessionTypes, l \in ReviewLimits :
       GetDueQuestionsFails(u, ty, l)
  \/ ReturnReview
  \/ ReviewTick

SpecReview == InitReview /\ [][NextReview]_vars

ReviewDone == review.pc = "done"

InResult(r) == \E i \in 1..Len(review.result) : review.result[i] = r

\* C14 as stated: every returned record belongs to the requested user, has
\* nextReviewAt <= now, is not completed and passes the session filter, for
\* 'immediate' answered within the last hour, for 'spaced' answered MORE than
\* 2 hours ago; the result holds at most limit records.
C14_ResultFilteredStrictly ==
  ReviewDone =>
    /\ Len(review.result) <= review.limit
    /\ \A i \in 1..Len(review.result) :
         LET r == review.result[i]
         IN /\ r.userId = review.userId
            /\ r.nextReviewAt <= review.at
            /\ r.isCompleted = FALSE
            /\ review.sessionType = "immediate" =>
                 r.lastAnsweredAt >= review.at - 1 * TicksPerHour
            /\ review.sessionType = "spaced" =>
                 r.lastAnsweredAt < review.at - 2 * TicksPerHour

\* C14 amended: the same, except that for 'spaced' a returned record was
\* answered AT LEAST 2 hours ago (a record answered exactly 2 hours before
\* the call is returned); every returned record is a stored one.
C14_ResultFiltered ==
  ReviewDone =>
    /\ Len(review.result) <= review.limit
    /\ \A i \in 1..Len(review.result) :
         LET r == review.result[i]
         IN /\ r.userId = review.userId
            /\ r.nextReviewAt <= review.at
            /\ r.isCompleted = FALSE
            /\ ProgressId(r.userId, r.questionId) \in DOMAIN store
            /\ store[ProgressId(r.userId, r.questionId)] = r
            /\ review.sessionType = "immediate" =>
                 r.lastAnsweredAt >= review.at - 1 * TicksPerHour
            /\ review.sessionType = "spaced" =>
                 r.lastAnsweredAt <= review.at - 2 * TicksPerHour

\* A spaced review of user u over the mixed collection has returned records
\* while completed, not yet due, recently answered and foreign ones exist
C14_Witness ==
  /\ ReviewDone
  /\ review.sessionType = "spaced"
  /\ review.userId = <<"u">>
  /\ store = StoreOf(MixedDocs)
  /\ Len(review.result) = 3
  /\ InResult(Doc(<<"u">>, 3, 4, 6, 50, FALSE))

Overdue(r) == review.at > r.nextReviewAt

\* C15: in the returned list no record that is not overdue comes before an
\* overdue one, and among records of the same overdue-ness masteryLevel is
\* non-decreasing.
C15_ResultInPriorityOrder ==
  ReviewDone =>
    \A i, j \in 1..Len(review.result) :
      i < j =>
        LET a == review.result[i]
            b == review.result[j]
        IN /\ ~(~Overdue(a) /\ Overdue(b))
           /\ (Overdue(a) <=> Overdue(b)) => a.masteryLevel <= b.masteryLevel

\* A manual review has returned overdue records of mastery 30, 50, 60, 70
\* followed by the records due at this very time, of mastery 10 and 20
C15_Witness ==
  /\ ReviewDone
  /\ review.sessionType = "manual"
  /\ Len(review.result) = 6
  /\ review.result[1].masteryLevel = 30
  /\ Overdue(review.result[4])
  /\ ~Overdue(review.result[5])
  /\ review.result[5].masteryLevel = 10

\* The stored records of the requested user that were due when the query
\* was made, are not completed and pass the session filter
DuePool ==
  { r \in {store[id] : id \in DOMAIN store} :
      /\ Matches(r, review.userId, review.queriedAt)
      /\ PassesFilter(r, review.sessionType, review.at) }

\* C16: the result is the first limit elements of the priority ordering of
\* all records of the due pool: it holds min(limit, size of the pool)
\* records of the pool, no record left out has priority over a returned one,
\* and it is not empty when the pool is not.
C16_SelectsFromWholePool ==
  ReviewDone =>
    /\ \A i \in 1..Len(review.result) : review.result[i] \in DuePool
    /\ Len(review.result) =
         (IF review.limit < Cardinality(DuePool) THEN review.limit
          ELSE Cardinality(DuePool))
    /\ \A r \in DuePool :
         ~InResult(r) =>
           \A i \in 1..Len(review.result) :
             ComparePriority(review.result[i], r, review.at) <= 0
    /\ DuePool # {} => review.result # <<>>

(***************************************************************************)
(* SpacedRepetitionService.generateSessionStats, evaluated on inputs drawn *)
(* from bounded sets.  Numbers are exact rationals; at the thresholds the  *)
(* doubles of the program compare as the exact values do.                  *)
(***************************************************************************)
MaxReviewed == 10

RSub(a, b) == RAdd(a, <<-b[1], b[2]>>)
RAbs(a) == <<Abs(a[1]), a[2]>>

idealResponseTime == 15

\* The if-chain on accuracy and efficiency
PerformanceTier(accuracy, efficiency) ==
  IF RLe(Int2Rat(80), accuracy) /\ RLe(Int2Rat(70), efficiency)
  THEN "excellent"
  ELSE IF RLe(Int2Rat(60), accuracy) /\ RLe(Int2Rat(50), efficiency)
       THEN "good"
       ELSE "needs_improvement"

\* Variant: the tier is taken from the rounded values
generateSessionStats_TierFromRounded(questionsReviewed, correctAnswers, sessionDuration, averageResponseTime) ==
  LET accuracy == IF questionsReviewed > 0
                  THEN Rat(correctAnswers * 100, questionsReviewed)
                  ELSE Int2Rat(0)
      questionsPerMinute == IF sessionDuration > 0
                            THEN Rat(questionsReviewed * 60, sessionDuration)
                            ELSE Int2Rat(0)
      efficiency ==
        RMax(Int2Rat(0),
             RSub(Int2Rat(100),
                  RMul(RAbs(RSub(averageResponseTime,
                                 Int2Rat(idealResponseTime))), Int2Rat(2))))
  IN [accuracy |-> MathRound(accuracy),
      questionsPerMinute |->
        Rat(MathRound(RMul(questionsPerMinute, Int2Rat(10))), 10),
      efficiency |-> MathRound(efficiency),
      performance |-> PerformanceTier(Int2Rat(MathRound(accuracy)),
                                      Int2Rat(MathRound(efficiency)))]

generateSessionStats(questionsReviewed, correctAnswers, sessionDuration, averageResponseTime) ==
  LET accuracy == IF questionsReviewed > 0
                  THEN Rat(correctAnswers * 100, questionsReviewed)
                  ELSE Int2Rat(0)
      questionsPerMinute == IF sessionDuration > 0
                            THEN Rat(questionsReviewed * 60, sessionDuration)
                            ELSE Int2Rat(0)
      efficiency ==
        RMax(Int2Rat(0),
             RSub(Int2Rat(100),
                  RMul(RAbs(RSub(averageResponseTime,
                                 Int2Rat(idealResponseTime))), Int2Rat(2))))
  IN [accuracy |-> MathRound(accuracy),
      questionsPerMinute |->
        Rat(MathRound(RMul(questionsPerMinute, Int2Rat(10))), 10),
      efficiency |-> MathRound(efficiency),
      performance |-> PerformanceTier(accuracy, efficiency)]

\* (questionsReviewed, correctAnswers): every pair up to MaxReviewed and two
\* longer sessions whose accuracy lies just under a threshold
StatCounts ==
  {<<r, c>> : r \in 0..MaxReviewed, c \in 0..MaxReviewed}
    \cup {<<44, 35>>, <<42, 25>>}

StatDurations == {0, 300}

\* Average response times in seconds, 30.2 and 25.25 among them
StatTimes ==
  { Int2Rat(0), Int2Rat(12), Int2Rat(15), Int2Rat(30), <<151, 5>>,
    <<101, 4>>, Int2Rat(40), Int2Rat(65) }

InitStats ==
  /\ AuxIdle
  /\ CoreIdle
  /\ review = NoReview
  /\ session = NoSession
  /\ gemini = NoGemini
  /\ catalog = NoCatalog
  /\ \E rc \in StatCounts, d \in StatDurations, a \in StatTimes :
       /\ rc[2] <= rc[1]
       /\ stats = [NoStats EXCEPT !.questionsReviewed = rc[1],
                                  !.correctAnswers = rc[2],
                                  !.sessionDuration = d,
                                  !.averageResponseTime = a]

GenerateSessionStats ==
  /\ stats.out = Undefined
  /\ stats' = [stats EXCEPT !.out =
       Some(generateSessionStats(stats.questionsReviewed, stats.correctAnswers,
                                 stats.sessionDuration,
                                 stats.averageResponseTime))]
  /\ UNCHANGED <<coreVars, review, session, gemini, catalog, auxVars>>

NextStats == GenerateSessionStats

SpecStats == InitStats /\ [][NextStats]_vars

\* The result for (10, 8, 300, 12): accuracy 80, 2.0 questions per minute,
\* efficiency 94, tier 'excellent'
StatsExample ==
  (/\ stats.questionsReviewed = 10 /\ stats.correctAnswers = 8
   /\ stats.sessionDuration = 300
   /\ stats.averageResponseTime = Int2Rat(12)) =>
    stats.out[1] = [accuracy |-> 80, questionsPerMinute |-> <<2, 1>>,
                    efficiency |-> 94, performance |-> "excellent"]

\* C17 as stated: the returned tier agrees with the returned, rounded
\* accuracy and efficiency ('excellent' exactly when accuracy >= 80 and
\* efficiency >= 70, otherwise 'good' exactly when accuracy >= 60 and
\* efficiency >= 50, otherwise 'needs_improvement'), and (10, 8, 300, 12)
\* gives 80, 2.0, 94, 'excellent'.
C17_TierAgreesWithReturned ==
  stats.out # Undefined =>
    LET out == stats.out[1]
    IN /\ out.performance =
            (IF out.accuracy >= 80 /\ out.efficiency >= 70 THEN "excellent"
             ELSE IF out.accuracy >= 60 /\ out.efficiency >= 50 THEN "good"
             ELSE "needs_improvement")
       /\ StatsExample

\* C17 amended: the tier is decided by the accuracy and the efficiency
\* before rounding (accuracy = 100 * correct / reviewed, or 0 without
\* reviews; efficiency = max(0, 100 - 2 * |averageResponseTime - 15|)), the
\* returned accuracy and efficiency are these values rounded to the nearest
\* integer, and (10, 8, 300, 12) gives 80, 2.0, 94, 'excellent'.
C17_TierFromUnrounded ==
  stats.out # Undefined =>
    LET out == stats.out[1]
        r == stats.questionsReviewed
        c == stats.correctAnswers
        n == stats.averageResponseTime[1]
        d == stats.averageResponseTime[2]
        \* accuracy >= p and efficiency >= e, without division
        AccAtLeast(p) == IF r > 0 THEN 100 * c >= p * r ELSE 0 >= p
        EffAtLeast(e) == 2 * Abs(n - 15 * d) <= (100 - e) * d
        \* the returned integer v is the value x = num / den rounded
        Rounds(v, num, den) ==
          /\ 2 * num >= (2 * v - 1) * den
          /\ 2 * num < (2 * v + 1) * den
    IN /\ out.performance =
            (IF AccAtLeast(80) /\ EffAtLeast(70) THEN "excellent"
             ELSE IF AccAtLeast(60) /\ EffAtLeast(50) THEN "good"
             ELSE "needs_improvement")
       /\ IF r > 0 THEN Rounds(out.accuracy, 100 * c, r) ELSE out.accuracy = 0
       /\ IF EffAtLeast(0)
          THEN Rounds(out.efficiency, 100 * d - 2 * Abs(n - 15 * d), d)
          ELSE out.efficiency = 0
       /\ StatsExample

\* (10, 8, 300, 30.2) has returned accuracy 80 and efficiency 70 (rounded
\* from 69.6) with the tier 'good'
C17_Witness ==
  /\ stats.out # Undefined
  /\ stats.questionsReviewed = 10
  /\ stats.correctAnswers = 8
  /\ stats.averageResponseTime = <<151, 5>>
  /\ stats.out[1].accuracy = 80
  /\ stats.out[1].efficiency = 70
  /\ stats.out[1].performance = "good"

(***************************************************************************)
(* GeminiService: texts and their parsing.  A text is a sequence of lines, *)
(* a line a sequence of tokens (words, spaces, punctuation); the empty     *)
(* string is the empty sequence.                                           *)
(***************************************************************************)
\* Tokens whose lower-case form includes 'question', and 'answer'
QuestionTokens == {"question", "Question", "QUESTION", "\"question\"", "\"questions\""}
AnswerTokens == {"answer", "Answer", "\"answer\""}

\* String.prototype.trim on a line
Trim(line) ==
  LET solid == {i \in 1..Len(line) : line[i] # " "}
  IN IF solid = {} THEN <<>>
     ELSE SubSeq(line, CHOOSE i \in solid : \A j \in solid : i <= j,
                       CHOOSE i \in solid : \A j \in solid : i >= j)

\* line.split(':').slice(1).join(':').trim(): what follows the first colon
AfterColon(line) ==
  LET colons == {i \in 1..Len(line) : line[i] = ":"}
      first == CHOOSE i \in colons : \A j \in colons : i <= j
  IN Trim(SubSeq(line, first + 1, Len(line)))

Includes(line, tokens) == \E i \in 1..Len(line) : line[i] \in tokens

\* A question as the parsers build it
GeminiQuestion(question, answer, options, type, difficulty) ==
  [question |-> question, answer |-> answer, options |-> options,
   type |-> type, difficulty |-> difficulty]

\* The loop of parseQuestionsFromText over the non-blank lines, from line i
RECURSIVE ScanLines(_, _, _, _, _, _)
ScanLines(lines, i, questions, currentQuestion, currentAnswer, difficulty) ==
  LET pushed ==
        IF currentQuestion # <<>> /\ currentAnswer # <<>>
        THEN Append(questions,
                    GeminiQuestion(currentQuestion, currentAnswer, Undefined,
                                   "open", difficulty))
        ELSE questions
  IN IF i > Len(lines) THEN pushed
     ELSE IF Includes(lines[i], QuestionTokens) /\ Includes(lines[i], {":"})
          THEN ScanLines(lines, i + 1, pushed, AfterColon(lines[i]), <<>>,
                         difficulty)
          ELSE IF Includes(lines[i], AnswerTokens) /\ Includes(lines[i], {":"})
               THEN ScanLines(lines, i + 1, questions, currentQuestion,
                              AfterColon(lines[i]), difficulty)
               ELSE ScanLines(lines, i + 1, questions, currentQuestion,
                              currentAnswer, difficulty)

parseQuestionsFromText(text, difficulty) ==
  ScanLines(SelectSeq(text, LAMBDA line : Trim(line) # <<>>), 1, <<>>, <<>>,
            <<>>, difficulty)

\* The text as one string: the lines joined by line feeds
RECURSIVE Flatten(_)
Flatten(text) ==
  IF text = <<>> THEN <<>>
  ELSE IF Len(text) = 1 THEN text[1]
       ELSE text[1] \o <<"\n">> \o Flatten(Tail(text))

\* generatedText.match(/\{[\s\S]*\}/): from the first '{' to the last '}'
JsonMatch(text) ==
  LET chars == Flatten(text)
      opens == {i \in 1..Len(chars) : chars[i] = "{"}
      closes == {i \in 1..Len(chars) : chars[i] = "}"}
  IN IF \E i \in opens, j \in closes : i < j
     THEN Some(SubSeq(chars, CHOOSE i \in opens : \A k \in opens : i <= k,
                             CHOOSE j \in closes : \A k \in closes : j >= k))
     ELSE Undefined

(***************************************************************************)
(* JSON.parse on the matched string.  A JSON value is a record with its    *)
(* kind; JSON.parse is given by its value on the documents listed here     *)
(* (white space between tokens is insignificant) and throws on every other *)
(* string of the texts below, none of which is valid JSON.                 *)
(***************************************************************************)
JMissing == [kind |-> "missing", s |-> <<>>, items |-> <<>>]
JNull == [kind |-> "null", s |-> <<>>, items |-> <<>>]
JNumber == [kind |-> "number", s |-> <<>>, items |-> <<>>]
JString(s) == [kind |-> "string", s |-> s, items |-> <<>>]
JArray(items) == [kind |-> "array", s |-> <<>>, items |-> items]
JItem(question, answer, options, type, difficulty) ==
  [kind |-> "object", question |-> question, answer |-> answer,
   options |-> options, type |-> type, difficulty |-> difficulty]

TypedItemChars(typeToken) ==
  <<"{", "\"question\"", ":", "\"w\"", ",", "\"answer\"", ":", "\"w\"", ",",
    "\"type\"", ":", typeToken, "}">>

TypedItem(type) ==
  JItem(JString(<<"w">>), JString(<<"w">>), JMissing, type, JMissing)

\* An item that carries a difficulty of its own
RatedItemChars ==
  <<"{", "\"question\"", ":", "\"w\"", ",", "\"answer\"", ":", "\"w\"", ",",
    "\"type\"", ":", "\"essay\"", ",", "\"difficulty\"", ":", "\"hard\"",
    "}">>

RatedItem ==
  JItem(JString(<<"w">>), JString(<<"w">>), JMissing, JString(<<"essay">>),
        JString(<<"hard">>))

QuestionsChars(items) ==
  <<"{", "\"questions\"", ":", "[">> \o items \o <<"]", "}">>

JsonDocs ==
  << [chars |-> QuestionsChars(TypedItemChars("\"Multiple Choice\"")),
      questions |-> JArray(<<TypedItem(JString(<<"Multiple Choice">>))>>)],
     [chars |-> QuestionsChars(TypedItemChars("\"true_false\"")),
      questions |-> JArray(<<TypedItem(JString(<<"true_false">>))>>)],
     [chars |-> QuestionsChars(TypedItemChars("\"essay\"")),
      questions |-> JArray(<<TypedItem(JString(<<"essay">>))>>)],
     [chars |-> QuestionsChars(TypedItemChars("5")),
      questions |-> JArray(<<TypedItem(JNumber)>>)],
     [chars |-> QuestionsChars(<<"{", "\"question\"", ":", "\"w\"", ",",
                                 "\"options\"", ":", "[", "\"w\"", ",",
                                 "\"w\"", "]", "}">>),
      questions |-> JArray(<<JItem(JString(<<"w">>), JMissing,
                                   JArray(<<<<"w">>, <<"w">>>>), JMissing,
                                   JMissing)>>)],
     [chars |-> QuestionsChars(<<"null">>),
      questions |-> JArray(<<JNull>>)],
     [chars |-> QuestionsChars(<<>>), questions |-> JArray(<<>>)],
     [chars |-> <<"{", "}">>, questions |-> JMissing],
     [chars |-> <<"{", "\"questions\"", ":", "\"w\"", "}">>,
      questions |-> JString(<<"w">>)],
     [chars |-> QuestionsChars(RatedItemChars),
      questions |-> JArray(<<RatedItem>>)] >>

ParseJSON(chars) ==
  LET solid == SelectSeq(chars, LAMBDA c : c \notin {" ", "\n"})
      hits == {i \in 1..Len(JsonDocs) : JsonDocs[i].chars = solid}
  IN IF hits = {} THEN Undefined
     ELSE Some(JsonDocs[CHOOSE i \in hits : TRUE])

\* String.prototype.toLowerCase on the type names that occur
ToLowerCase(token) ==
  CASE token = "Multiple Choice" -> "multiple choice"
    [] token = "TRUE_FALSE" -> "true_false"
    [] OTHER -> token

\* validateQuestionType: type?.toLowerCase() yields undefined for a missing
\* or null type; a type that is no string is handled by the caller
validateQuestionType(type) ==
  LET normalizedType == IF type.kind = "string" THEN ToLowerCase(type.s[1])
                        ELSE "undefined"
  IN IF normalizedType \in {"multiple_choice", "multiple choice"}
     THEN "multiple_choice"
     ELSE IF normalizedType \in {"true_false", "true/false"}
          THEN "true_false"
          ELSE "open"

\* q.question || '' (and likewise the answer): strings only occur
OrEmpty(value) == IF value.kind = "string" THEN value.s ELSE <<>>

\* The callback of parsed.questions.map throws a TypeError: q is null, or
\* q.type has no toLowerCase
MapThrows(q) == q.kind = "null" \/ q.type.kind \notin {"string", "missing", "null"}

\* Variant: the difficulty of the item, when it has one, wins
MapQuestion_PayloadDifficulty(q, difficulty) ==
  GeminiQuestion(OrEmpty(q.question), OrEmpty(q.answer),
                 IF q.options.kind = "array" THEN Some(q.options.items)
                 ELSE Undefined,
                 validateQuestionType(q.type),
                 IF q.difficulty.kind = "string" THEN q.difficulty.s[1]
                 ELSE difficulty)

\* The callback of parsed.questions.map
MapQuestion(q, difficulty) ==
  GeminiQuestion(OrEmpty(q.question), OrEmpty(q.answer),
                 IF q.options.kind = "array" THEN Some(q.options.items)
                 ELSE Undefined,
                 validateQuestionType(q.type), difficulty)

\* The try block of parseGeneratedQuestions: the questions, or Undefined
\* when it throws
TryParseJson(text, difficulty) ==
  LET jsonMatch == JsonMatch(text)
      parsed == IF jsonMatch = Undefined THEN Undefined
                ELSE ParseJSON(jsonMatch[1])
  IN IF jsonMatch = Undefined \/ parsed = Undefined THEN Undefined
     ELSE IF parsed[1].questions.kind # "array" THEN Undefined
     ELSE LET items == parsed[1].questions.items
          IN IF \E i \in 1..Len(items) : MapThrows(items[i]) THEN Undefined
             ELSE Some([i \in 1..Len(items) |-> MapQuestion(items[i], difficulty)])

\* Variant: without the fallback, a failure of the try block is the result
parseGeneratedQuestions_NoFallback(generatedText, difficulty) ==
  IF generatedText = Undefined THEN Undefined
  ELSE TryParseJson(generatedText[1], difficulty)

\* parseGeneratedQuestions: Some(list), or Undefined when it throws, which
\* happens only for a generatedText that is no string
parseGeneratedQuestions(generatedText, difficulty) ==
  IF generatedText = Undefined THEN Undefined
  ELSE LET tried == TryParseJson(generatedText[1], difficulty)
       IN IF tried # Undefined THEN tried
          ELSE Some(parseQuestionsFromText(generatedText[1], difficulty))

(***************************************************************************)
(* GeminiService.generateQuestions: the key check, the HTTP request and    *)
(* the endpoint's answer                                                   *)
(***************************************************************************)
MaxInvocations == 2

Difficulties == {"easy", "medium", "hard"}

\* Question and answer lines as the fallback parser expects them
QuestionLine == <<"Question", " ", "1", ":", " ", "w", "?">>
AnswerLine == <<"Answer", ":", " ", "w">>

\* The reply format of the prompt, spread over lines and cut off
PrettyCut ==
  << <<"{">>,
     <<" ", "\"questions\"", ":", " ", "[">>,
     <<" ", "{">>,
     <<" ", "\"question\"", ":", " ", "\"w\"", ",">>,
     <<" ", "\"answer\"", ":", " ", "\"w\"", ",">> >>

\* Texts a candidate may hold: plain prose, question/answer lines, the JSON
\* documents alone, spread over lines and inside prose, and broken JSON
Texts ==
  { <<<<>>>>,
    <<<<"w", " ", "w">>>>,
    <<QuestionLine, AnswerLine>>,
    <<QuestionLine, AnswerLine, <<" ">>, <<"QUESTION", ":", "w">>, AnswerLine>>,
    <<<<"question", ":", "w">>>>,
    <<QuestionLine, <<"Answer", ":", " ">>>>,
    <<AnswerLine, QuestionLine>>,
    <<<<"Question", " ", "and", " ", "answer", ":", "w">>, AnswerLine>>,
    <<<<"w">>, JsonDocs[1].chars, <<"w">>>>,
    <<<<"{">>, <<" ", "\"questions\"", ":", " ", "[">>,
      TypedItemChars("\"essay\""), <<"]">>, <<"}">>>>,
    PrettyCut,
    PrettyCut \o <<<<" ", "}">>>>,
    <<<<"{", "}", " ", "{", "}">>>>,
    <<<<"}", " ", "w", " ", "{">>>>,
    <<<<"{", "question", ":", "w", "}">>, AnswerLine>> }
    \cup { <<JsonDocs[i].chars>> : i \in 1..Len(JsonDocs) }

\* What the endpoint sends with a success status
Bodies ==
  { [kind |-> k, text |-> Undefined] :
      k \in {"not_json", "no_candidates", "no_content", "no_parts", "text"} }
    \cup { [kind |-> "text", text |-> Some(t)] : t \in Texts }

ErrorStatuses == {400, 429, 500}

InitGemini ==
  /\ AuxIdle
  /\ CoreIdle
  /\ review = NoReview
  /\ session = NoSession
  /\ stats = NoStats
  /\ catalog = NoCatalog
  /\ \E key \in BOOLEAN : gemini = [NoGemini EXCEPT !.apiKey = key]

\* The call has thrown
Thrown(error, response) ==
  [gemini EXCEPT !.pc = "failed", !.error = error, !.response = response,
                 !.result = Undefined]

\* Variant: the request is sent before the key is looked at
GenerateQuestions_FetchFirst(difficulty) ==
  /\ gemini.pc \in {"idle", "done", "failed"}
  /\ gemini.invocations < MaxInvocations
  /\ gemini' = [gemini EXCEPT !.pc = "fetch", !.difficulty = difficulty,
                              !.invocations = @ + 1, !.requests = @ + 1,
                              !.response = Undefined, !.result = Undefined,
                              !.error = "none"]
  /\ UNCHANGED <<coreVars, review, session, stats, catalog, auxVars>>

\* generateQuestions up to its await of fetch
GenerateQuestions(difficulty) ==
  /\ gemini.pc \in {"idle", "done", "failed"}
  /\ gemini.invocations < MaxInvocations
  /\ gemini' =
       IF ~gemini.apiKey
       THEN [Thrown("not_configured", Undefined) EXCEPT
               !.difficulty = difficulty, !.invocations = @ + 1]
       ELSE [gemini EXCEPT !.pc = "fetch", !.difficulty = difficulty,
                           !.invocations = @ + 1, !.requests = @ + 1,
                           !.response = Undefined, !.result = Undefined,
                           !.error = "none"]
  /\ UNCHANGED <<coreVars, review, session, stats, catalog, auxVars>>

\* fetch rejects (no connection)
FetchRejects ==
  /\ gemini.pc = "fetch"
  /\ gemini' = Thrown("network", Undefined)
  /\ UNCHANGED <<coreVars, review, session, stats, catalog, auxVars>>

\* The endpoint answers with a non-success status
HttpError(status) ==
  /\ gemini.pc = "fetch"
  /\ gemini' = Thrown("request_failed",
                      Some([ok |-> FALSE, status |-> status,
                            body |-> [kind |-> "none", text |-> Undefined]]))
  /\ UNCHANGED <<coreVars, review, session, stats, catalog, auxVars>>

\* The endpoint answers with a success status
HttpSuccess(body) ==
  /\ gemini.pc = "fetch"
  /\ LET response == Some([ok |-> TRUE, status |-> 200, body |-> body])
         parsed == parseGeneratedQuestions(body.text, gemini.difficulty)
     IN gemini' =
          CASE body.kind = "not_json" -> Thrown("invalid_json", response)
            [] body.kind \in {"no_candidates", "no_content"} ->
                 Thrown("invalid_response", response)
            [] body.kind = "no_parts" -> Thrown("type_error", response)
            [] OTHER ->
                 IF parsed = Undefined THEN Thrown("type_error", response)
                 ELSE [gemini EXCEPT !.pc = "done", !.response = response,
                                     !.result = parsed, !.error = "none"]
  /\ UNCHANGED <<coreVars, review, session, stats, catalog, auxVars>>

NextGemini ==
  \/ \E d \in Difficulties : GenerateQuestions(d)
  \/ FetchRejects
  \/ \E status \in ErrorStatuses : HttpError(status)
  \/ \E body \in Bodies : HttpSuccess(body)

SpecGemini == InitGemini /\ [][NextGemini]_vars

\* C18: without an API key generateQuestions fails with the configuration
\* error and no HTTP request is sent; with a key, an answer with a
\* non-success status makes it fail with the request error and return no
\* question list.
C18_ConfigAndRequestErrors ==
  [][/\ (gemini'.invocations = gemini.invocations + 1 /\ ~gemini.apiKey) =>
          /\ gemini'.pc = "failed"
          /\ gemini'.error = "not_configured"
          /\ gemini'.requests = gemini.requests
          /\ gemini'.result = Undefined
     /\ gemini'.requests # gemini.requests => gemini.apiKey
     /\ (/\ gemini.pc = "fetch"
         /\ gemini'.response # Undefined
         /\ ~gemini'.response[1].ok) =>
          /\ gemini.apiKey
          /\ gemini'.pc = "failed"
          /\ gemini'.error = "request_failed"
          /\ gemini'.result = Undefined]_vars

\* With a key, the endpoint has answered 500 and the call has failed with
\* the request error
C18_Witness ==
  /\ gemini.apiKey
  /\ gemini.pc = "failed"
  /\ gemini.error = "request_failed"
  /\ gemini.response # Undefined
  /\ gemini.response[1].status = 500
  /\ gemini.requests = 1
  /\ gemini.result = Undefined

\* C19: when the endpoint answers with success and a candidate whose text is
\* a string, generateQuestions returns a list whatever the text holds; when
\* the text holds no JSON object, invalid JSON or JSON without a questions
\* array, the list is the one the line-scanning fallback parser produces.
C19_TextNeverFails ==
  [][(/\ gemini.pc = "fetch"
      /\ gemini'.response # Undefined
      /\ gemini'.response[1].ok
      /\ gemini'.response[1].body.kind = "text"
      /\ gemini'.response[1].body.text # Undefined) =>
       LET text == gemini'.response[1].body.text[1]
           jsonMatch == JsonMatch(text)
           noJson == jsonMatch = Undefined
           invalid == ~noJson /\ ParseJSON(jsonMatch[1]) = Undefined
           noArray == /\ ~noJson /\ ~invalid
                      /\ ParseJSON(jsonMatch[1])[1].questions.kind # "array"
       IN /\ gemini'.pc = "done"
          /\ gemini'.error = "none"
          /\ gemini'.result # Undefined
          /\ (noJson \/ invalid \/ noArray) =>
               gemini'.result[1] =
                 parseQuestionsFromText(text, gemini.difficulty)]_vars

\* The cut-off JSON reply has been answered by the fallback parser with the
\* one question its lines hold
C19_Witness ==
  /\ gemini.pc = "done"
  /\ gemini.response[1].body.text = Some(PrettyCut)
  /\ gemini.difficulty = "hard"
  /\ Len(gemini.result[1]) = 1
  /\ gemini.result[1][1] =
       GeminiQuestion(<<"\"w\"", ",">>, <<"\"w\"", ",">>, Undefined, "open",
                      "hard")

(***************************************************************************)
(* questionsService.createQuestion and deleteQuestion over the questions   *)
(* and topics collections.  createQuestion is three store operations with  *)
(* an await before each: addDoc, the count query and the topic update;     *)
(* deleteQuestion is one.  The store is reachable throughout.              *)
(***************************************************************************)
MaxCatalogOps == 3

CatalogTopics == {<<"s">>, <<"t">>}

\* The topics exist, as createTopic leaves them, and hold no questions
InitCatalog ==
  /\ AuxIdle
  /\ CoreIdle
  /\ review = NoReview
  /\ session = NoSession
  /\ stats = NoStats
  /\ gemini = NoGemini
  /\ catalog = [NoCatalog EXCEPT !.topics = [t \in CatalogTopics |-> 0]]

QuestionsOf(topicId) == {q \in catalog.questions : q.topicId = topicId}

\* createQuestion up to updateTopicQuestionCount: addDoc has stored the
\* question under a fresh id
CreateQuestion(topicId) ==
  /\ catalog.started < MaxCatalogOps
  /\ catalog' = [catalog EXCEPT
       !.started = @ + 1,
       !.nextId = @ + 1,
       !.questions = @ \cup {[id |-> catalog.nextId, topicId |-> topicId]},
       !.ops = Append(@, [topicId |-> topicId, pc |-> "getDocs",
                          questionCount |-> 0])]
  /\ UNCHANGED <<coreVars, review, session, stats, gemini, auxVars>>

\* updateTopicQuestionCount: the count query is answered
CountQuestions(i) ==
  /\ i \in 1..Len(catalog.ops)
  /\ catalog.ops[i].pc = "getDocs"
  /\ catalog' = [catalog EXCEPT
       !.ops[i].pc = "updateTopic",
       !.ops[i].questionCount =
          Cardinality(QuestionsOf(catalog.ops[i].topicId))]
  /\ UNCHANGED <<coreVars, review, session, stats, gemini, auxVars>>

\* updateTopicQuestionCount: topicsService.updateTopic stores the count and
\* createQuestion returns
UpdateTopic(i) ==
  /\ i \in 1..Len(catalog.ops)
  /\ catalog.ops[i].pc = "updateTopic"
  /\ catalog' = [catalog EXCEPT
       !.topics[catalog.ops[i].topicId] = catalog.ops[i].questionCount,
       !.ops = RemoveAt(@, i)]
  /\ UNCHANGED <<coreVars, review, session, stats, gemini, auxVars>>

\* deleteQuestion: deleteDoc removes the document
DeleteQuestion(questionId) ==
  /\ catalog.started < MaxCatalogOps
  /\ catalog' = [catalog EXCEPT
       !.started = @ + 1,
       !.questions = {q \in @ : q.id # questionId}]
  /\ UNCHANGED <<coreVars, review, session, stats, gemini, auxVars>>

NextCatalog ==
  \/ \E t \in CatalogTopics : CreateQuestion(t)
  \/ \E i \in 1..MaxCatalogOps : CountQuestions(i)
  \/ \E i \in 1..MaxCatalogOps : UpdateTopic(i)
  \/ \E id \in 1..MaxCatalogOps : DeleteQuestion(id)

SpecCatalog == InitCatalog /\ [][NextCatalog]_vars

\* C20: when all createQuestion and deleteQuestion calls made so far have
\* completed, each topic's questionCount equals the number of stored
\* questions of that topic.
C20_QuestionCountMatches ==
  catalog.ops = <<>> =>
    \A t \in DOMAIN catalog.topics :
      catalog.topics[t] = Cardinality(QuestionsOf(t))

\* ---------------------------------------------------------------------------
\* The Firestore access rules (firestore.rules).  A request is allowed when
\* the `allow` of at least one matching `match` block is satisfied.
\* ---------------------------------------------------------------------------

Methods == {"get", "list", "create", "update", "delete"}

Collections == {"users", "topics", "questions", "progress", "reviews", "other"}

DocIds == Users \cup {<<"d">>}

\* request.auth: null, or a signed-in requester with its uid
Auths == {Undefined} \cup {Some(u) : u \in Users}

\* resource: null, or an existing document with its data.userId
Resources == {Undefined} \cup {Some(u) : u \in Users}

Requests ==
  { [pc |-> "asked", auth |-> a, method |-> m, collection |-> c,
     docId |-> d, resource |-> r, allowed |-> FALSE] :
      a \in Auths, m \in Methods, c \in Collections, d \in DocIds,
      r \in Resources }

\* allow read, write: both cover every method
ReadWrite(request) == request.method \in Methods

\* match /users/{userId}
UsersRule(request) ==
  /\ request.collection = "users"
  /\ ReadWrite(request)
  /\ request.auth # Undefined
  /\ request.auth[1] = request.docId

\* match /topics, /questions, /progress, /reviews
OwnerRule(request) ==
  /\ request.collection \in {"topics", "questions", "progress", "reviews"}
  /\ ReadWrite(request)
  /\ request.auth # Undefined
  /\ (request.resource = Undefined \/ request.resource[1] = request.auth[1])

WildcardRule_Removed(request) == FALSE

\* match /{document=**}: allow read, write: if true
WildcardRule(request) == ReadWrite(request)

Allowed(request) ==
  UsersRule(request) \/ OwnerRule(request) \/ WildcardRule(request)

InitRules ==
  /\ CoreIdle
  /\ review = NoReview /\ session = NoSession /\ stats = NoStats
  /\ gemini = NoGemini /\ catalog = NoCatalog
  /\ reminders = NoReminders /\ auth = NoAuth /\ journal = NoJournal
  /\ rules \in Requests

Evaluate ==
  /\ rules.pc = "asked"
  /\ rules' = [rules EXCEPT !.pc = "decided", !.allowed = Allowed(rules)]
  /\ UNCHANGED <<coreVars, review, session, stats, gemini, catalog,
                 reminders, auth, journal>>

NextRules == Evaluate

SpecRules == InitRules /\ [][NextRules]_vars

\* C21: every read and every write on every document is allowed for every
\* requester, signed in or not, owner of the record or not: no request that
\* the rules have decided is denied.
C21_EverythingAllowed == rules.pc = "decided" => rules.allowed

\* An unauthenticated delete of another user's progress record, and a write
\* by a requester whose id differs from the record's userId, both allowed.
C21_Witness ==
  /\ rules.pc = "decided"
  /\ rules.allowed
  /\ rules.collection = "progress"
  /\ rules.method = "delete"
  /\ rules.resource = Some(<<"v">>)
  /\ rules.auth = Undefined
  /\ ~ OwnerRule(rules)

\* C22: right after a successful processAnswer with performance 'again',
\* whatever the prior record, the stored record has reviewInterval =
\* minInterval, consecutiveCorrect = 0 and isCompleted = FALSE; a record
\* that was completed is not completed any more and matches the due query
\* at every time from its nextReviewAt on.
C22_AgainResetsRecord ==
  [][\A c \in CallIds :
       (Pending(c) /\ calls[c].performance = "again"
          /\ calls'[c].result = "ok") =>
         LET rec == store'[CallKey(c)]
         IN /\ rec.reviewInterval = Int2Rat(minInterval)
            /\ rec.consecutiveCorrect = Some(0)
            /\ rec.isCompleted = FALSE
            /\ \A t \in 0..(rec.nextReviewAt + TicksPerHour) :
                 t >= rec.nextReviewAt => Matches(rec, rec.userId, t)]_vars

\* The mastered, completed record of (u, q) (3 of 3, interval 100, streak 3)
\* answered 'again' by a call that succeeded.
C22_Witness ==
  \E c \in CallIds :
    /\ calls[c].op = "processAnswer"
    /\ calls[c].result = "ok"
    /\ CallKey(c) = ProgressId(<<"u">>, <<"q">>)
    /\ store[CallKey(c)].lastPerformance = "again"
    /\ store[CallKey(c)].totalAttempts = 4
    /\ store[CallKey(c)].correctAnswers = 3
    /\ store[CallKey(c)].reviewInterval = Int2Rat(1)
    /\ store[CallKey(c)].consecutiveCorrect = Some(0)
    /\ ~ store[CallKey(c)].isCompleted

\* C23: when processAnswer fails inside handleAnswer the failure is reported
\* (one alert) and the session state is left as it was: currentIndex,
\* showAnswer and sessionStats keep their values, the same question stays
\* current, and the step does not finish the session.
C23_FailureLeavesSession ==
  [][session'.alerts # session.alerts =>
       /\ session'.alerts = session.alerts + 1
       /\ session'.currentIndex = session.currentIndex
       /\ session'.showAnswer = session.showAnswer
       /\ session'.sessionStats = session.sessionStats
       /\ session'.questions = session.questions
       /\ session'.finished = session.finished]_vars

\* The only answer given so far failed: the first question is still shown
\* with its answer, nothing has been counted and the session goes on.
C23_Witness ==
  /\ session.alerts = 1
  /\ session.presses = 1
  /\ session.handlers = <<>>
  /\ session.currentIndex = 0
  /\ session.showAnswer
  /\ session.sessionStats.questionsReviewed = 0
  /\ session.finished = <<>>

\* ---------------------------------------------------------------------------
\* One caller answering one question again and again, each processAnswer
\* awaited before the next one starts, with the clock running and a review
\* query of that user in between.  The store is reachable throughout.
\* ---------------------------------------------------------------------------

MaxSerial == 3
MaxSerialTicks == 3

SerialKey == ProgressId(<<"u">>, <<"p">>)

\* What the store holds for the key before the first answer
SerialStarts == {"empty", "simple", "mastered"}

\* The seconds every answer of the caller takes
SerialResponseTime == Some(Int2Rat(20))

\* The sessions the caller asks for
SerialSessionTypes == {"immediate", "manual"}

InitSerial ==
  /\ \E kind \in SerialStarts :
       /\ store = IF kind = "empty" THEN <<>>
                  ELSE (SerialKey :> Seed(kind, <<"u">>, <<"p">>))
       /\ journal = [NoJournal EXCEPT !.initial = kind]
  /\ now = 0
  /\ calls = [c \in CallIds |-> IdleCall]
  /\ started = 0
  /\ calc = NoCalc
  /\ review = NoReview /\ session = NoSession /\ stats = NoStats
  /\ gemini = NoGemini /\ catalog = NoCatalog
  /\ rules = NoRequest /\ reminders = NoReminders /\ auth = NoAuth

\* processAnswer up to its updateProgress request, called once the previous
\* call has returned
SerialAnswer(performance, responseTime) ==
  /\ calls[1].pc \in {"idle", "done"}
  /\ Len(journal.answers) < MaxSerial
  /\ LET snapshot == Snapshot(SerialKey)
         call == [IdleCall EXCEPT
                    !.op = "processAnswer", !.userId = <<"u">>,
                    !.questionId = <<"p">>, !.topicId = <<"t">>,
                    !.performance = performance,
                    !.responseTime = responseTime,
                    !.isCorrect = performance # "again"]
     IN calls' = [calls EXCEPT ![1] =
          Requested(call, snapshot,
                    ProcessAnswerUpdate(<<"u">>, <<"p">>, <<"t">>, performance,
                                        responseTime, snapshot, now))]
  /\ journal' = [journal EXCEPT !.answers = Append(@, performance)]
  /\ UNCHANGED <<store, now, started, calc, review, session, stats, gemini,
                 catalog, rules, reminders, auth>>

\* The store answers the updateDoc of that call; the journal keeps the keys
\* that processAnswer has written
AnswerStored ==
  /\ calls[1].pc = "updateDoc"
  /\ IF Exists(CallKey(1))
     THEN /\ store' = [store EXCEPT ![CallKey(1)] =
                         MergeUpdate(calls[1].op, @, calls[1].update[1])]
          /\ calls' = [calls EXCEPT ![1] = Returned(@, "ok")]
          /\ journal' = [journal EXCEPT !.written = @ \cup {CallKey(1)}]
     ELSE /\ store' = store
          /\ calls' = [calls EXCEPT ![1] = Returned(@, "not_found")]
          /\ journal' = journal
  /\ UNCHANGED <<now, started, calc, review, session, stats, gemini, catalog,
                 rules, reminders, auth>>

SerialTick ==
  /\ now < MaxSerialTicks
  /\ now' = now + 1
  /\ UNCHANGED <<store, calls, started, calc, extVars>>

NextSerial ==
  \/ \E p \in Performances : SerialAnswer(p, SerialResponseTime)
  \/ AnswerStored
  \/ SerialTick
  \/ \E ty \in SerialSessionTypes : GetDueQuestions(<<"u">>, ty, DueLimit)
  \/ ReturnReview

SpecSerial == InitSerial /\ [][NextSerial]_vars

\* The calls made so far, on a key that had no record, have all returned
SerialDone ==
  /\ journal.initial = "empty"
  /\ journal.answers # <<>>
  /\ calls[1].pc = "done"

CorrectGiven ==
  Cardinality({i \in 1..Len(journal.answers) : journal.answers[i] # "again"})

C25_ThreeGoodsComplete ==
  /\ (journal.initial = "empty" /\ Len(journal.answers) < 3) =>
       ~(Exists(SerialKey) /\ store[SerialKey].isCompleted)
  /\ (SerialDone /\ journal.answers = <<"good", "good", "good">>) =>
       /\ Exists(SerialKey)
       /\ store[SerialKey].isCompleted
       /\ store[SerialKey].reviewInterval = Int2Rat(40)
       /\ store[SerialKey].masteryLevel >= 80

\* The record is not the one the store held before the first answer: its
\* lastAnsweredAt and nextReviewAt were written by processAnswer
WrittenByProcessAnswer(r) ==
  journal.initial = "empty" \/ r # Seed(journal.initial, <<"u">>, <<"p">>)

\* At time t the record was answered strictly less than one hour ago
InsideLastHour(r, t) == r.lastAnsweredAt > HoursFrom(t, Int2Rat(-1))

RatedOnceAllSaved ==
  /\ session.finished # <<>>
  /\ session.handlers = <<>>
  /\ session.alerts = 0
  /\ session.presses = Len(session.questions)

\* C27: when every answer is saved and each question is rated once, the
\* statistics handed to generateSessionStats at the last answer cover every
\* answered question, the last one included: questionsReviewed is the number
\* of questions and correctAnswers counts the last rating.
C27_FinalStatsCoverLast ==
  RatedOnceAllSaved =>
    /\ session.finished[1].questionsReviewed = Len(session.questions)
    /\ session.finished[1].correctAnswers = session.sessionStats.correctAnswers

\* ---------------------------------------------------------------------------
\* NotificationService.scheduleReviewReminders (notifications.ts)
\* ---------------------------------------------------------------------------

MaxReminderTicks == 2

\* A notification held by the scheduler
Notification(type, scheduledTime, questionCount, userId) ==
  [type |-> type, scheduledTime |-> scheduledTime,
   questionCount |-> questionCount, userId |-> userId]

\* What the scheduler holds before the call: nothing, or the daily goal
\* reminder of the evening
ScheduledBefore ==
  { {},
    {Notification("daily-goal", ReviewStart + 4 * TicksPerHour, 0, <<"u">>)} }

InitReminders ==
  /\ store \in ReviewStores
  /\ now = ReviewStart
  /\ calls = [c \in CallIds |-> IdleCall]
  /\ started = 0
  /\ calc = NoCalc
  /\ review = NoReview /\ session = NoSession /\ stats = NoStats
  /\ gemini = NoGemini /\ catalog = NoCatalog
  /\ rules = NoRequest /\ auth = NoAuth /\ journal = NoJournal
  /\ \E before \in ScheduledBefore :
       reminders = [NoReminders EXCEPT !.scheduled = before]

\* Variant: the bucket time is the hour nearest to the review time
HourStart_Nearest(t) == t + ((TicksPerHour - (t % TicksPerHour)) % TicksPerHour)

\* new Date(year, month, date, hour, 0, 0) of the hour key of t
HourStart(t) == t - (t % TicksPerHour)

\* questionsByHour: one entry per hour key, in order of first occurrence
RECURSIVE GroupByHour(_)
GroupByHour(due) ==
  IF due = <<>> THEN <<>>
  ELSE LET rest == GroupByHour(SubSeq(due, 1, Len(due) - 1))
           hour == HourStart(due[Len(due)].nextReviewAt)
       IN IF \E i \in 1..Len(rest) : rest[i].scheduledTime = hour
          THEN [i \in 1..Len(rest) |->
                  IF rest[i].scheduledTime = hour
                  THEN [rest[i] EXCEPT !.count = @ + 1] ELSE rest[i]]
          ELSE Append(rest, [scheduledTime |-> hour, count |-> 1])

\* scheduleReviewReminders up to its query: cancelNotificationsByTag removes
\* the review reminders, or fails and logs
ScheduleReviewReminders(u, cancelled) ==
  /\ reminders.pc = "idle"
  /\ reminders' = [reminders EXCEPT
       !.pc = "getDueQuestions", !.userId = u,
       !.scheduled = IF cancelled
                     THEN {n \in @ : n.type # "review-reminder"} ELSE @]
  /\ UNCHANGED <<coreVars, review, session, stats, gemini, catalog, rules,
                 auth, journal>>

\* The query answers: return on an empty result, else group by hour
GetDue ==
  /\ reminders.pc = "getDueQuestions"
  /\ LET due == DueQuery(reminders.userId, now)
     IN reminders' = [reminders EXCEPT
          !.pc = IF due = <<>> THEN "done" ELSE "schedule",
          !.buckets = GroupByHour(due)]
  /\ UNCHANGED <<coreVars, review, session, stats, gemini, catalog, rules,
                 auth, journal>>

\* The query fails: the catch block logs
GetDueFails ==
  /\ reminders.pc = "getDueQuestions"
  /\ reminders' = [reminders EXCEPT !.pc = "done"]
  /\ UNCHANGED <<coreVars, review, session, stats, gemini, catalog, rules,
                 auth, journal>>

\* One turn of the loop over questionsByHour: the future-only guard and,
\* behind it, scheduleNotification, which schedules or fails and logs
ScheduleBucket(accepted) ==
  /\ reminders.pc = "schedule"
  /\ LET b == Head(reminders.buckets)
     IN reminders' = [reminders EXCEPT
          !.buckets = Tail(@),
          !.considered = @ + 1,
          !.pc = IF Tail(reminders.buckets) = <<>> THEN "done" ELSE "schedule",
          !.scheduled =
             IF b.scheduledTime > now /\ accepted
             THEN @ \cup {Notification("review-reminder", b.scheduledTime,
                                       b.count, reminders.userId)}
             ELSE @]
  /\ UNCHANGED <<coreVars, review, session, stats, gemini, catalog, rules,
                 auth, journal>>

RemindersTick ==
  /\ now < ReviewStart + MaxReminderTicks
  /\ now' = now + 1
  /\ UNCHANGED <<store, calls, started, calc, extVars>>

NextReminders ==
  \/ \E u \in Users, cancelled \in BOOLEAN : ScheduleReviewReminders(u, cancelled)
  \/ GetDue
  \/ GetDueFails
  \/ \E accepted \in BOOLEAN : ScheduleBucket(accepted)
  \/ RemindersTick

SpecReminders == InitReminders /\ [][NextReminders]_vars

MaxAuthEvents == 3
MaxListeners == 2

InitAuth ==
  /\ CoreIdle
  /\ review = NoReview /\ session = NoSession /\ stats = NoStats
  /\ gemini = NoGemini /\ catalog = NoCatalog
  /\ rules = NoRequest /\ reminders = NoReminders /\ journal = NoJournal
  /\ \E stored \in SUBSET Users : auth = [NoAuth EXCEPT !.profiles = stored]

\* authStateListeners.forEach(listener => listener(user))
Notify(listeners, user) ==
  [i \in 1..Len(listeners) |->
     [calls |-> listeners[i].calls + 1, last |-> user]]

addAuthStateListener ==
  /\ auth.registered < MaxListeners
  /\ auth' = [auth EXCEPT
       !.registered = @ + 1,
       !.listeners = Append(@, [calls |-> 0, last |-> Undefined])]
  /\ UNCHANGED <<coreVars, review, session, stats, gemini, catalog, rules,
                 reminders, journal>>

\* The unsubscribe function returned by addAuthStateListener
Unsubscribe(i) ==
  /\ i \in 1..Len(auth.listeners)
  /\ auth' = [auth EXCEPT !.listeners = RemoveAt(@, i)]
  /\ UNCHANGED <<coreVars, review, session, stats, gemini, catalog, rules,
                 reminders, journal>>

\* The provider reports a sign-in: the callback runs up to its await of
\* getOrCreateUserProfile, which awaits getDoc
SignedIn(uid) ==
  /\ auth.provider = Undefined
  /\ auth.events < MaxAuthEvents
  /\ auth' = [auth EXCEPT
       !.provider = Some(uid),
       !.events = @ + 1,
       !.callbacks = Append(@, [uid |-> uid, pc |-> "getDoc"])]
  /\ UNCHANGED <<coreVars, review, session, stats, gemini, catalog, rules,
                 reminders, journal>>

\* The provider reports a sign-out: the callback has no await and runs to
\* its end
SignedOut ==
  /\ auth.provider # Undefined
  /\ auth.events < MaxAuthEvents
  /\ auth' = [auth EXCEPT
       !.provider = Undefined,
       !.events = @ + 1,
       !.currentUser = Undefined,
       !.listeners = Notify(@, Undefined)]
  /\ UNCHANGED <<coreVars, review, session, stats, gemini, catalog, rules,
                 reminders, journal>>

\* The rest of a sign-in callback once the profile is there
Resume(i) ==
  [auth EXCEPT
     !.callbacks = RemoveAt(@, i),
     !.currentUser = Some(auth.callbacks[i].uid),
     !.listeners = Notify(@, Some(auth.callbacks[i].uid))]

\* getDoc resolves: the profile exists and the callback resumes, or
\* createUserProfile starts and awaits setDoc
GetDocResolves(i) ==
  /\ i \in 1..Len(auth.callbacks)
  /\ auth.callbacks[i].pc = "getDoc"
  /\ auth' = IF auth.callbacks[i].uid \in auth.profiles
             THEN Resume(i)
             ELSE [auth EXCEPT !.callbacks[i].pc = "setDoc"]
  /\ UNCHANGED <<coreVars, review, session, stats, gemini, catalog, rules,
                 reminders, journal>>

\* setDoc resolves: the profile is stored and the callback resumes
SetDocResolves(i) ==
  /\ i \in 1..Len(auth.callbacks)
  /\ auth.callbacks[i].pc = "setDoc"
  /\ auth' = [Resume(i) EXCEPT !.profiles = @ \cup {auth.callbacks[i].uid}]
  /\ UNCHANGED <<coreVars, review, session, stats, gemini, catalog, rules,
                 reminders, journal>>

\* getDoc or setDoc rejects: the callback rejects at its await
ProfileLoadFails(i) ==
  /\ i \in 1..Len(auth.callbacks)
  /\ auth' = [auth EXCEPT !.callbacks = RemoveAt(@, i)]
  /\ UNCHANGED <<coreVars, review, session, stats, gemini, catalog, rules,
                 reminders, journal>>

NextAuth ==
  \/ addAuthStateListener
  \/ \E i \in 1..MaxListeners : Unsubscribe(i)
  \/ \E uid \in Users : SignedIn(uid)
  \/ SignedOut
  \/ \E i \in 1..MaxAuthEvents : GetDocResolves(i)
  \/ \E i \in 1..MaxAuthEvents : SetDocResolves(i)
  \/ \E i \in 1..MaxAuthEvents : ProfileLoadFails(i)

SpecAuth == InitAuth /\ [][NextAuth]_vars

getCurrentUser == auth.currentUser

isAuthenticated == auth.currentUser # Undefined

\* The provider has reported a sign-in and last a sign-out, and every
\* auth-state callback has run to completion
SignedOutSettled ==
  /\ auth.provider = Undefined
  /\ auth.events >= 2
  /\ auth.callbacks = <<>>

\* C29: once the provider has reported a sign-in and then a sign-out and both
\* callbacks have run to completion, getCurrentUser() is null,
\* isAuthenticated() is false and the last value delivered to every
\* registered listener is null, in every interleaving.
C29_SignedOutAfterSignOut ==
  SignedOutSettled =>
    /\ getCurrentUser = Undefined
    /\ ~isAuthenticated
    /\ \A i \in 1..Len(auth.listeners) :
         auth.listeners[i].calls > 0 => auth.listeners[i].last = Undefined

QuestionTypes == {"open", "multiple_choice", "true_false"}

\* generateQuestions has returned a list for a candidate text
Generated ==
  /\ gemini.pc = "done"
  /\ gemini.result # Undefined
  /\ gemini.response # Undefined
  /\ gemini.response[1].body.text # Undefined

\* C30: every question returned by generateQuestions has the requested
\* difficulty, whatever the payload says, and a type in {open,
\* multiple_choice, true_false}, an unknown or missing type becoming 'open';
\* every question the fallback parser produces has type 'open', a non-empty
\* question and a non-empty answer.
C30_DifficultyAndType ==
  Generated =>
    LET text == gemini.response[1].body.text[1]
        result == gemini.result[1]
        tried == TryParseJson(text, gemini.difficulty)
        fallback == parseQuestionsFromText(text, gemini.difficulty)
        items == ParseJSON(JsonMatch(text)[1])[1].questions.items
    IN /\ \A i \in 1..Len(result) :
            /\ result[i].difficulty = gemini.difficulty
            /\ result[i].type \in QuestionTypes
       /\ tried # Undefined =>
            \A i \in 1..Len(result) :
              (\/ items[i].type.kind # "string"
               \/ ToLowerCase(items[i].type.s[1]) \notin
                    {"multiple_choice", "multiple choice", "true_false",
                     "true/false"}) =>
                result[i].type = "open"
       /\ tried = Undefined => result = fallback
       /\ \A i \in 1..Len(fallback) :
            /\ fallback[i].type = "open"
            /\ fallback[i].difficulty = gemini.difficulty
            /\ fallback[i].question # <<>>
            /\ fallback[i].answer # <<>>

\* 'easy' was requested and the payload item says 'hard' and type 'essay':
\* the returned question is 'easy' and 'open'.
C30_Witness ==
  /\ Generated
  /\ gemini.difficulty = "easy"
  /\ gemini.response[1].body.text[1] = <<QuestionsChars(RatedItemChars)>>
  /\ Len(gemini.result[1]) = 1
  /\ gemini.result[1][1].difficulty = "easy"
  /\ gemini.result[1][1].type = "open"

====
